---- MODULE Spec2Model ----
(***************************************************************************)
(* A model of folklore's `Map<K, V>` (src/src/lib.rs) and of the key store *)
(* it is built on, `ConcurrentArray<K>` / `ConcurrentArena<K>`             *)
(* (src/src/array.rs).                                                     *)
(*                                                                         *)
(* `Map::insert`, `Map::remove` and `Map::compare_exchange` take           *)
(* `&mut self`, so calls on one map follow one another; specification      *)
(* `Spec` is the map under every sequence of calls, one action per call.   *)
(***************************************************************************)
EXTENDS Integers, Sequences, FiniteSets, TLC

(***************************************************************************)
(* Bounds of the model.                                                    *)
(***************************************************************************)
\* Map::new(capacity) is called with capacity in 1..MaxCapacity.
MaxCapacity == 3
\* The keys handed to the map are 0..NumKeys-1.
NumKeys == 3
\* Runs that only insert are short: they take capacities up to MaxCapacityInserts
\* and keys 0..NumKeysInserts-1.
MaxCapacityInserts == 4
NumKeysInserts == 5
\* The values handed to the map are 0..MaxValue (V is a 2-byte value).
MaxValue == 1
\* Calls that overlap: NumThreads threads share a map built with a capacity
\* in 1..MaxCapacityConcurrent and call it with keys 0..NumKeysConcurrent-1
\* and, for key k, the MaxValueConcurrent + 1 values of ValuesFor(k); where
\* one thread only reads, the values are MaxValueConcurrentGet + 1 a key.
NumThreads == 2
MaxCapacityConcurrent == 3
NumKeysConcurrent == 2
MaxValueConcurrent == 0
MaxValueConcurrentGet == 1
\* The key store alone: NumThreads threads push to and pop from a
\* ConcurrentArray of 0..MaxCapacityArena items.
MaxCapacityArena == 3
\* Descriptor arithmetic is followed for the NumLargest largest capacities
\* Map::new accepts.
NumLargest == 2

Keys == 0 .. (NumKeys - 1)
KeysInserts == 0 .. (NumKeysInserts - 1)
Values == 0 .. MaxValue
Threads == 1 .. NumThreads
KeysConcurrent == 0 .. (NumKeysConcurrent - 1)
\* The values the overlapping calls store for key k: no two keys share a
\* value, and none is the 0 of a zeroed cell.
ValuesFor(k, max_value) == {k * (max_value + 1) + i + 1 : i \in 0 .. max_value}

(***************************************************************************)
(* Program constants.                                                      *)
(***************************************************************************)
BUCKET_CAPACITY == 4
EMPTY_KEY == 0
DELETED_KEY == 1
MIN_KEY == 2
\* OffsetT = u16: descriptors are computed modulo 2^16.
OffsetModulus == 65536
\* i16::MAX, the largest capacity Map::new accepts.
I16Max == 32767
\* size_of::<K>() for the key type of the model (u64 keys).
ElemSize == 8
\* The slot content of arena memory that no push has written yet.
Uninit == -1

(***************************************************************************)
(* Map::new: the two f64 computations, in integers.                        *)
(* (capacity as f64 / 0.6) as usize is floor(5*capacity/3) and             *)
(* (table_size as f64 * 0.6) as usize is floor(3*table_size/5) for every   *)
(* capacity up to i16::MAX (0.6 is not exact in binary, but the rounding   *)
(* never crosses an integer in that range).                                *)
(***************************************************************************)
RECURSIVE NextPow2From(_, _)
NextPow2From(p, n) == IF p >= n THEN p ELSE NextPow2From(2 * p, n)

\* usize::next_power_of_two: the smallest power of two >= n (1 for n = 0).
next_power_of_two(n) == NextPow2From(1, n)

\* A table of twice the size.
TableSize_Doubled(requested) == 2 * next_power_of_two((requested * 5) \div 3)

\* let table_size = ((capacity as f64 / LOAD_FACTOR) as usize).next_power_of_two();
TableSize(requested) == next_power_of_two((requested * 5) \div 3)

\* let capacity = (table_size as f64 * LOAD_FACTOR) as usize;
EffectiveCapacity(requested) == (TableSize(requested) * 3) \div 5

\* A key store sized by the capacity the caller asked for.
KeysCapacity_Requested(requested) == requested

\* keys: ConcurrentArray::new(capacity), with the shadowed (effective) capacity.
KeysCapacity(requested) == EffectiveCapacity(requested)

\* create_table: bucket_count = capacity >> BUCKET_CAPACITY.ilog2(), zeroed.
BucketCount(table_size) == table_size \div BUCKET_CAPACITY

ZeroCell == [key_offset |-> EMPTY_KEY, value |-> 0]

(***************************************************************************)
(* Hashing and indexing.                                                   *)
(***************************************************************************)
\* hash::<K, SipHasher13>(&key): a fixed deterministic function of the key.
\* The keys of the model hash in pairs, so that distinct keys collide.
hash(key) == key \div 2

\* wrap_index(index, size) = index % size; a zero size panics (-1 here).
wrap_index(index, size) == IF size = 0 THEN -1 ELSE index % size


\* get_bucket_index(index, size_mask) = (index & size_mask) >> ilog2(BUCKET_CAPACITY)
get_bucket_index(index, mask) == (index % (mask + 1)) \div BUCKET_CAPACITY

\* get_cell_index(index) = index & (BUCKET_CAPACITY - 1)
get_cell_index(index) == index % BUCKET_CAPACITY

\* get_cell: the position, in the flat array of cells, of
\* buckets[bucket_index].cells[cell_index].
get_cell(index, mask) ==
    get_bucket_index(index, mask) * BUCKET_CAPACITY + get_cell_index(index)

(***************************************************************************)
(* The state of one Map.                                                   *)
(***************************************************************************)
VARIABLES
    requested,       \* the argument of Map::new
    capacity,        \* Map.capacity: the effective capacity
    size_mask,       \* Table.size_mask
    byte_capacity,   \* ConcurrentArena.byte_capacity
    array_capacity,  \* ConcurrentArray.capacity
    cells,           \* the table: position -> Cell {key_offset, value}
    slots,           \* the arena's memory, one entry per T-sized slot
    next,            \* ConcurrentArena.next, a byte index
    count,           \* Map.count
    stopped,         \* "no", or how the last call failed to return: "panic", "hang"
    inserted,        \* key -> {the value its last successful insert stored}
    removed,         \* the keys removed and not passed to insert since
    published,       \* the slots of the key store a cell has referred to
    threads,         \* thread -> the call it is in and its local variables
    start            \* the map when the calls in progress were started

vars == << requested, capacity, size_mask, byte_capacity, array_capacity,
           cells, slots, next, count, stopped, inserted, removed,
           published, threads, start >>

\* The mutable part of the map, as one value.
Cur == [cells |-> cells, slots |-> slots, next |-> next, count |-> count]

(***************************************************************************)
(* Results of calls.                                                       *)
(***************************************************************************)
RetTrue == [tag |-> "true", val |-> 0]
RetFalse == [tag |-> "false", val |-> 0]
RetUnit == [tag |-> "unit", val |-> 0]
RetNone == [tag |-> "None", val |-> 0]
RetSome(v) == [tag |-> "Some", val |-> v]
RetOk(v) == [tag |-> "Ok", val |-> v]
RetErr(v) == [tag |-> "Err", val |-> v]
\* `index % 0`: the call panics.
RetPanic == [tag |-> "panic", val |-> 0]
\* The unconditional loop came back to the cell it started at with nothing
\* changed: the call never returns.
RetHang == [tag |-> "hang", val |-> 0]
\* No result yet: the loop goes on to the next cell.
RetContinue == [tag |-> "continue", val |-> 0]

(***************************************************************************)
(* ConcurrentArena / ConcurrentArray (src/src/array.rs).                   *)
(***************************************************************************)
\* A push that returns the cursor it stored, not the one it replaced.
ConcurrentArena_push_ReturnsNew(m) ==
    IF m.next >= byte_capacity
    THEN [ok |-> FALSE, index |-> 0, m |-> m]
    ELSE [ok |-> TRUE, index |-> m.next + ElemSize,
          m |-> [m EXCEPT !.next = m.next + ElemSize]]

\* A push that gives up one slot early.
ConcurrentArena_push_StrictBound(m) ==
    IF m.next + ElemSize >= byte_capacity
    THEN [ok |-> FALSE, index |-> 0, m |-> m]
    ELSE [ok |-> TRUE, index |-> m.next,
          m |-> [m EXCEPT !.next = m.next + ElemSize]]

\* A push that advances `next` before it looks at the capacity.
ConcurrentArena_push_AdvancesFirst(m) ==
    [ok |-> m.next < byte_capacity, index |-> m.next,
     m |-> [m EXCEPT !.next = m.next + ElemSize]]

\* ConcurrentArena::push: fetch_update on `next`; None when next >= byte_capacity.
ConcurrentArena_push(m) ==
    IF m.next >= byte_capacity
    THEN [ok |-> FALSE, index |-> 0, m |-> m]
    ELSE [ok |-> TRUE, index |-> m.next,
          m |-> [m EXCEPT !.next = m.next + ElemSize]]

\* ConcurrentArray::push: reserve a slot, write the item, return its item index.
ConcurrentArray_push(m, item) ==
    LET r == ConcurrentArena_push(m) IN
    IF ~r.ok
    THEN [ok |-> FALSE, index |-> 0, m |-> r.m]
    ELSE [ok |-> TRUE, index |-> r.index \div ElemSize,
          m |-> [r.m EXCEPT !.slots[r.index \div ElemSize] = item]]

\* A try_remove that expects `next` at the item's own index.
ConcurrentArena_try_remove_NoSize(m, index) ==
    IF m.next = index
    THEN [ok |-> TRUE, m |-> [m EXCEPT !.next = index]]
    ELSE [ok |-> FALSE, m |-> m]

\* A try_remove that takes back any slot below the cursor.
ConcurrentArena_try_remove_AnyBelow(m, index) ==
    IF m.next > index
    THEN [ok |-> TRUE, m |-> [m EXCEPT !.next = index]]
    ELSE [ok |-> FALSE, m |-> m]

\* A try_remove that takes back the slot under the newest one as well.
ConcurrentArena_try_remove_TwoNewest(m, index) ==
    IF m.next = index + ElemSize \/ m.next = index + 2 * ElemSize
    THEN [ok |-> TRUE, m |-> [m EXCEPT !.next = index]]
    ELSE [ok |-> FALSE, m |-> m]

\* A try_remove that stores `index` in `next` whatever `next` holds.
ConcurrentArena_try_remove_Always(m, index) ==
    [ok |-> TRUE, m |-> [m EXCEPT !.next = index]]

\* ConcurrentArena::try_remove: compare_exchange(index + size, index) on `next`.
ConcurrentArena_try_remove(m, index) ==
    IF m.next = index + ElemSize
    THEN [ok |-> TRUE, m |-> [m EXCEPT !.next = index]]
    ELSE [ok |-> FALSE, m |-> m]

\* ConcurrentArray::remove: refuses an index at or beyond the capacity.
ConcurrentArray_remove(m, index) ==
    IF index >= array_capacity
    THEN [ok |-> FALSE, m |-> m]
    ELSE ConcurrentArena_try_remove(m, index * ElemSize)

\* ConcurrentArena::get / ConcurrentArray::get: None at or beyond byte_capacity,
\* else the slot's content, written or not.
ConcurrentArray_get(m, index) ==
    IF index * ElemSize >= byte_capacity
    THEN [some |-> FALSE, val |-> Uninit]
    ELSE [some |-> TRUE, val |-> m.slots[index]]


(***************************************************************************)
(* Map (src/src/lib.rs).  A closure handed to fetch_update is an operator  *)
(* from the cell's current content to [some, cell]: Some(cell) stores the  *)
(* cell and makes fetch_update return Ok(current), None stores nothing and *)
(* makes it return Err(current).                                           *)
(***************************************************************************)
UpdSome(cell) == [some |-> TRUE, cell |-> cell]
UpdNone == [some |-> FALSE, cell |-> ZeroCell]

\* The key a descriptor refers to: keys.get(key_offset - MIN_KEY).
KeyOf(m, key_offset) == ConcurrentArray_get(m, key_offset - MIN_KEY)

\* A capacity check that is off by one: count > capacity.
InsertFull_OffByOne(m) == m.count > capacity

\* Map::insert, the capacity check: count >= capacity.  count is a usize:
\* a fetch_sub on 0 wraps to usize::MAX, which the model keeps as -1, and
\* the comparison is unsigned.
InsertFull(m) == m.count < 0 \/ m.count >= capacity

\* An insert that stores the bare offset, without MIN_KEY.
InsertUpdate_NoMinKey(current, new_key_offset, value) ==
    IF current.key_offset \in {EMPTY_KEY, DELETED_KEY}
    THEN UpdSome([key_offset |-> new_key_offset % OffsetModulus, value |-> value])
    ELSE UpdNone

\* An insert that writes whatever the cell holds.
InsertUpdate_Overwrites(current, new_key_offset, value) ==
    UpdSome([key_offset |-> (new_key_offset + MIN_KEY) % OffsetModulus,
             value |-> value])

\* An insert that stores the descriptor and leaves the value for later.
InsertUpdate_KeepsValue(current, new_key_offset, value) ==
    IF current.key_offset \in {EMPTY_KEY, DELETED_KEY}
    THEN UpdSome([key_offset |-> (new_key_offset + MIN_KEY) % OffsetModulus,
                  value |-> current.value])
    ELSE UpdNone

\* Map::insert, the closure of its fetch_update.
InsertUpdate(current, new_key_offset, value) ==
    IF current.key_offset \in {EMPTY_KEY, DELETED_KEY}
    THEN UpdSome([key_offset |-> (new_key_offset + MIN_KEY) % OffsetModulus,
                  value |-> value])
    ELSE UpdNone

\* Map::insert, the loop: one iteration per cell examined.
RECURSIVE InsertLoop(_, _, _, _, _, _)
InsertLoop(m, key, value, new_key_offset, index, steps) ==
    IF steps >= capacity
    THEN [ret |-> RetHang, m |-> m]
    ELSE
    LET pos == get_cell(index, size_mask)
        current == m.cells[pos]
        upd == InsertUpdate(current, new_key_offset, value)
    IN
    IF upd.some
    THEN [ret |-> RetTrue,
          m |-> [m EXCEPT !.cells[pos] = upd.cell, !.count = m.count + 1]]
    ELSE
    LET existing_key == KeyOf(m, current.key_offset)
        alloc_key == m.slots[new_key_offset]
    IN
    IF existing_key.some /\ existing_key.val = alloc_key
    THEN [ret |-> RetFalse, m |-> ConcurrentArray_remove(m, new_key_offset).m]
    ELSE InsertLoop(m, key, value, new_key_offset,
                    wrap_index(index + 1, capacity), steps + 1)

\* Map::insert(key, value) -> bool
Map_insert(m, key, value) ==
    IF InsertFull(m)
    THEN [ret |-> RetFalse, m |-> m]
    ELSE IF capacity = 0
    THEN [ret |-> RetPanic, m |-> m]
    ELSE
    LET pushed == ConcurrentArray_push(m, key) IN
    IF ~pushed.ok
    THEN [ret |-> RetFalse, m |-> pushed.m]
    ELSE InsertLoop(pushed.m, key, value, pushed.index,
                    wrap_index(hash(key), capacity), 0)

\* A get that takes a tombstone for the end of the probe sequence.
GetVisit_StopsAtTombstone(m, cell_loaded, key) ==
    IF cell_loaded.key_offset \in {EMPTY_KEY, DELETED_KEY}
    THEN RetNone
    ELSE
    LET found_key == KeyOf(m, cell_loaded.key_offset) IN
    IF ~found_key.some
    THEN RetNone
    ELSE IF found_key.val = key
    THEN RetSome(cell_loaded.value)
    ELSE RetContinue

\* Map::get, the match on the cell it loaded: return None or Some(value),
\* or go on to the next cell.
GetVisit(m, cell_loaded, key) ==
    IF cell_loaded.key_offset = EMPTY_KEY
    THEN RetNone
    ELSE IF cell_loaded.key_offset = DELETED_KEY
    THEN RetContinue
    ELSE
    LET found_key == KeyOf(m, cell_loaded.key_offset) IN
    IF ~found_key.some
    THEN RetNone
    ELSE IF found_key.val = key
    THEN RetSome(cell_loaded.value)
    ELSE RetContinue

\* Map::get, the loop.
RECURSIVE GetLoop(_, _, _, _)
GetLoop(m, key, index, steps) ==
    IF steps >= capacity
    THEN RetHang
    ELSE
    LET visit == GetVisit(m, m.cells[get_cell(index, size_mask)], key) IN
    IF visit = RetContinue
    THEN GetLoop(m, key, wrap_index(index + 1, capacity), steps + 1)
    ELSE visit

\* Map::get(key) -> Option<V>
Map_get(m, key) ==
    IF capacity = 0
    THEN RetPanic
    ELSE GetLoop(m, key, wrap_index(hash(key), capacity), 0)

\* A remove that takes a tombstone for the end of the probe sequence.
RemoveUpdate_StopsAtTombstone(m, current, key) ==
    IF current.key_offset \in {EMPTY_KEY, DELETED_KEY}
    THEN UpdSome(current)
    ELSE
    LET found_key == KeyOf(m, current.key_offset) IN
    IF ~found_key.some
    THEN UpdNone
    ELSE IF found_key.val = key
    THEN UpdSome([key_offset |-> DELETED_KEY, value |-> current.value])
    ELSE UpdNone

\* A remove that zeroes the cell.
RemoveUpdate_ClearsCell(m, current, key) ==
    IF current.key_offset = EMPTY_KEY
    THEN UpdSome(current)
    ELSE IF current.key_offset = DELETED_KEY
    THEN UpdNone
    ELSE
    LET found_key == KeyOf(m, current.key_offset) IN
    IF ~found_key.some
    THEN UpdNone
    ELSE IF found_key.val = key
    THEN UpdSome(ZeroCell)
    ELSE UpdNone

\* A remove that gives the cell back as EMPTY.
RemoveUpdate_RestoresEmpty(m, current, key) ==
    IF current.key_offset = EMPTY_KEY
    THEN UpdSome(current)
    ELSE IF current.key_offset = DELETED_KEY
    THEN UpdNone
    ELSE
    LET found_key == KeyOf(m, current.key_offset) IN
    IF ~found_key.some
    THEN UpdNone
    ELSE IF found_key.val = key
    THEN UpdSome([key_offset |-> EMPTY_KEY, value |-> current.value])
    ELSE UpdNone

\* Map::remove, the closure of its fetch_update.
RemoveUpdate(m, current, key) ==
    IF current.key_offset = EMPTY_KEY
    THEN UpdSome(current)
    ELSE IF current.key_offset = DELETED_KEY
    THEN UpdNone
    ELSE
    LET found_key == KeyOf(m, current.key_offset) IN
    IF ~found_key.some
    THEN UpdNone
    ELSE IF found_key.val = key
    THEN UpdSome([key_offset |-> DELETED_KEY, value |-> current.value])
    ELSE UpdNone

\* A remove that counts down whatever cell its fetch_update stopped at.
RemoveDecrements_Always(previous) == TRUE

\* Map::remove, lib.rs:296: the count goes down unless the cell was EMPTY.
RemoveDecrements(previous) == previous.key_offset # EMPTY_KEY

\* A count that stops at 0.
count_fetch_sub_Saturating(c) == IF c = 0 THEN 0 ELSE c - 1

\* count.fetch_sub(1, SeqCst) on the usize count: 0 wraps to usize::MAX,
\* kept as -1.
count_fetch_sub(c) == c - 1

\* Map::remove, the loop.
RECURSIVE RemoveLoop(_, _, _, _)
RemoveLoop(m, key, index, steps) ==
    IF steps >= capacity
    THEN [ret |-> RetHang, m |-> m]
    ELSE
    LET pos == get_cell(index, size_mask)
        previous == m.cells[pos]
        upd == RemoveUpdate(m, previous, key)
    IN
    IF upd.some
    THEN [ret |-> RetUnit,
          m |-> [m EXCEPT !.cells[pos] = upd.cell,
                          !.count = IF RemoveDecrements(previous)
                                    THEN count_fetch_sub(m.count)
                                    ELSE m.count]]
    ELSE RemoveLoop(m, key, wrap_index(index + 1, capacity), steps + 1)

\* Map::remove(key)
Map_remove(m, key) ==
    IF capacity = 0
    THEN [ret |-> RetPanic, m |-> m]
    ELSE RemoveLoop(m, key, wrap_index(hash(key), capacity), 0)

\* A compare_exchange that stores the expected value in place of the new one.
CompareExchangeUpdate_StoresExpected(m, current, key, expected, new_val) ==
    IF current.key_offset = EMPTY_KEY
    THEN UpdSome(current)
    ELSE IF current.key_offset = DELETED_KEY
    THEN UpdNone
    ELSE
    LET found_key == KeyOf(m, current.key_offset) IN
    IF ~found_key.some
    THEN UpdNone
    ELSE IF found_key.val = key
    THEN IF current.value = expected
         THEN UpdSome([key_offset |-> current.key_offset, value |-> expected])
         ELSE UpdSome(current)
    ELSE UpdNone

\* Map::compare_exchange, the closure of its fetch_update.
CompareExchangeUpdate(m, current, key, expected, new_val) ==
    IF current.key_offset = EMPTY_KEY
    THEN UpdSome(current)
    ELSE IF current.key_offset = DELETED_KEY
    THEN UpdNone
    ELSE
    LET found_key == KeyOf(m, current.key_offset) IN
    IF ~found_key.some
    THEN UpdNone
    ELSE IF found_key.val = key
    THEN IF current.value = expected
         THEN UpdSome([key_offset |-> current.key_offset, value |-> new_val])
         ELSE UpdSome(current)
    ELSE UpdNone

\* A compare_exchange that reports success whatever value it found.
CompareExchangeResult_AlwaysOk(previous, expected) == RetOk(previous.value)

\* Map::compare_exchange, what it returns once fetch_update is Ok(previous).
CompareExchangeResult(previous, expected) ==
    IF previous.value = expected
    THEN RetOk(previous.value)
    ELSE RetErr(previous.value)

\* Map::compare_exchange, the loop.
RECURSIVE CompareExchangeLoop(_, _, _, _, _, _)
CompareExchangeLoop(m, key, expected, new_val, index, steps) ==
    IF steps >= capacity
    THEN [ret |-> RetHang, m |-> m]
    ELSE
    LET pos == get_cell(index, size_mask)
        previous == m.cells[pos]
        upd == CompareExchangeUpdate(m, previous, key, expected, new_val)
    IN
    IF upd.some
    THEN [ret |-> CompareExchangeResult(previous, expected),
          m |-> [m EXCEPT !.cells[pos] = upd.cell]]
    ELSE CompareExchangeLoop(m, key, expected, new_val,
                             wrap_index(index + 1, capacity), steps + 1)

\* Map::compare_exchange(key, expected, new_val) -> Result<V, V>
Map_compare_exchange(m, key, expected, new_val) ==
    IF capacity = 0
    THEN [ret |-> RetPanic, m |-> m]
    ELSE CompareExchangeLoop(m, key, expected, new_val,
                             wrap_index(hash(key), capacity), 0)


(***************************************************************************)
(* The program: Map::new, then any sequence of calls.                      *)
(***************************************************************************)
\* A thread that is in no call.
IdleThread ==
    [pc |-> "idle", op |-> "none", key |-> 0, value |-> 0, expected |-> 0,
     index |-> 0, off |-> 0, ret |-> RetUnit]

\* The index a call on `key` examines after n advances: it starts at
\* wrap_index(hash, capacity) and goes on by wrap_index(index + 1, capacity).
RECURSIVE ProbeIndex(_, _)
ProbeIndex(key, n) ==
    IF n = 0
    THEN wrap_index(hash(key), capacity)
    ELSE wrap_index(ProbeIndex(key, n - 1) + 1, capacity)

\* The cell of the table examined after n advances.
ProbeCell(key, n) == get_cell(ProbeIndex(key, n), size_mask)

\* Key `key` occupies a cell of m: an OCCUPIED cell's descriptor refers to it.
Occupies(m, key) ==
    \E pos \in DOMAIN m.cells :
        /\ m.cells[pos].key_offset >= MIN_KEY
        /\ KeyOf(m, m.cells[pos].key_offset).some
        /\ KeyOf(m, m.cells[pos].key_offset).val = key

\* Map::new(c) for some c in 1..max_capacity; the calls will take their keys
\* from `keys`.
New(max_capacity, keys) ==
    /\ requested \in 1 .. max_capacity
    /\ capacity = EffectiveCapacity(requested)
    /\ size_mask = TableSize(requested) - 1
    /\ array_capacity = KeysCapacity(requested)
    /\ byte_capacity = KeysCapacity(requested) * ElemSize
    /\ cells = [p \in 0 .. (BucketCount(TableSize(requested)) * BUCKET_CAPACITY - 1)
                  |-> ZeroCell]
    /\ slots = [i \in 0 .. (KeysCapacity(requested) - 1) |-> Uninit]
    /\ next = 0
    /\ count = 0
    /\ stopped = "no"
    /\ inserted = [k \in keys |-> {}]
    /\ removed = {}
    /\ published = {}
    /\ threads = [t \in Threads |-> IdleThread]
    /\ start = [cells |-> cells, slots |-> slots, next |-> 0, count |-> 0]

Init == New(MaxCapacity, Keys)

InitInserts == New(MaxCapacityInserts, KeysInserts)

\* The slots the OCCUPIED cells of m refer to.
Referenced(m) ==
    {m.cells[pos].key_offset - MIN_KEY :
        pos \in {p \in DOMAIN m.cells : m.cells[p].key_offset >= MIN_KEY}}

\* What a call leaves behind: the map it produced; a call that panics or
\* never returns ends the run.
Returns(ret, m) ==
    /\ cells' = m.cells
    /\ slots' = m.slots
    /\ next' = m.next
    /\ count' = m.count
    /\ published' = published \cup Referenced(m)
    /\ stopped' = IF ret.tag \in {"panic", "hang"} THEN ret.tag ELSE "no"
    /\ UNCHANGED << requested, capacity, size_mask, byte_capacity, array_capacity >>
    /\ UNCHANGED << threads, start >>

\* A call of map.insert(key, value).
Insert(key, value) ==
    /\ stopped = "no"
    /\ LET r == Map_insert(Cur, key, value) IN
       /\ Returns(r.ret, r.m)
       /\ inserted' = IF r.ret = RetTrue
                      THEN [inserted EXCEPT ![key] = {value}]
                      ELSE inserted
    /\ removed' = removed \ {key}

\* A call of map.get(&key): it changes nothing, unless it fails to return.
Get(key) ==
    /\ stopped = "no"
    /\ Returns(Map_get(Cur, key), Cur)
    /\ UNCHANGED << inserted, removed >>

\* A call of map.remove(&key).
Remove(key) ==
    /\ stopped = "no"
    /\ LET r == Map_remove(Cur, key) IN
       /\ Returns(r.ret, r.m)
       /\ removed' = IF r.ret = RetUnit THEN removed \cup {key} ELSE removed
    /\ inserted' = [inserted EXCEPT ![key] = {}]

\* A call of map.compare_exchange(&key, expected, new_val).
CompareExchange(key, expected, new_val) ==
    /\ stopped = "no"
    /\ LET r == Map_compare_exchange(Cur, key, expected, new_val) IN
       Returns(r.ret, r.m)
    /\ inserted' = [inserted EXCEPT ![key] = {}]
    /\ UNCHANGED removed

\* Every sequence of calls.
Next ==
    \/ \E key \in Keys, value \in Values : Insert(key, value)
    \/ \E key \in Keys : Get(key)
    \/ \E key \in Keys : Remove(key)
    \/ \E key \in Keys, expected \in Values, new_val \in Values :
          CompareExchange(key, expected, new_val)

Spec == Init /\ [][Next]_vars

\* Every sequence of inserts, removes and gets.
NextInsertRemove ==
    \/ \E key \in Keys, value \in Values : Insert(key, value)
    \/ \E key \in Keys : Get(key)
    \/ \E key \in Keys : Remove(key)

SpecInsertRemove == Init /\ [][NextInsertRemove]_vars

\* Every sequence of inserts and gets.
NextInserts ==
    \/ \E key \in KeysInserts, value \in Values : Insert(key, value)
    \/ \E key \in KeysInserts : Get(key)

SpecInserts == InitInserts /\ [][NextInserts]_vars

(***************************************************************************)
(* Calls that overlap.  Map is Send + Sync and every access to a cell, to  *)
(* count and to the arena cursor is one atomic operation; a thread's call  *)
(* is the sequence of these operations, and the calls of the threads       *)
(* interleave between them.  The calls in progress are all started         *)
(* together in a state where none is running (a call has no effect before  *)
(* its first atomic operation), and the threads are free again once all    *)
(* of them have returned.                                                  *)
(***************************************************************************)
Call(op, key, value, expected) ==
    [op |-> op, key |-> key, value |-> value, expected |-> expected]

NoCall == Call("none", 0, 0, 0)

InsertCalls(max_value) ==
    UNION {{Call("insert", k, v, 0) : v \in ValuesFor(k, max_value)} :
              k \in KeysConcurrent}

RemoveCalls == {Call("remove", k, 0, 0) : k \in KeysConcurrent}

GetCalls == {Call("get", k, 0, 0) : k \in KeysConcurrent}

CompareExchangeCalls(max_value) ==
    UNION {{Call("compare_exchange", k, new_val, expected) :
               expected \in ValuesFor(k, max_value),
               new_val \in ValuesFor(k, max_value)} : k \in KeysConcurrent}

\* The calls that change the map.
UpdateCalls(max_value) ==
    InsertCalls(max_value) \cup RemoveCalls \cup CompareExchangeCalls(max_value)

\* The thread at the start of its call: insert begins with its capacity
\* check, the others with wrap_index(hash, self.capacity), which panics on a
\* capacity of 0.
StartThread(call) ==
    IF call.op = "none"
    THEN IdleThread
    ELSE [pc |-> IF call.op = "insert" THEN "check"
                 ELSE IF capacity = 0 THEN "panic"
                 ELSE call.op,
          op |-> call.op, key |-> call.key, value |-> call.value,
          expected |-> call.expected,
          index |-> IF call.op = "insert" \/ capacity = 0 THEN 0
                    ELSE wrap_index(hash(call.key), capacity),
          off |-> 0, ret |-> RetUnit]

\* The thread once its call has returned ret.
Returned(th, ret) == [th EXCEPT !.pc = "done", !.index = 0, !.off = 0, !.ret = ret]

\* No call is in progress.
Quiescent == \A t \in Threads : threads[t].pc \in {"idle", "done"}

\* The map after an atomic operation of a thread.
Becomes(m) ==
    /\ cells' = m.cells
    /\ slots' = m.slots
    /\ next' = m.next
    /\ count' = m.count
    /\ published' = published \cup Referenced(m)
    /\ UNCHANGED << requested, capacity, size_mask, byte_capacity, array_capacity,
                    stopped, inserted, removed >>

\* The threads start their calls.
Begin(calls) ==
    /\ \A t \in Threads : threads[t].pc = "idle"
    /\ \E t \in Threads : calls[t] # NoCall
    /\ threads' = [t \in Threads |-> StartThread(calls[t])]
    /\ start' = Cur
    /\ Becomes(Cur)

\* Every call has returned: the threads are free for their next calls.
Finish ==
    /\ Quiescent
    /\ \E t \in Threads : threads[t].pc = "done"
    /\ threads' = [t \in Threads |-> IdleThread]
    /\ start' = Cur
    /\ Becomes(Cur)

\* Map::insert, lib.rs:92: count.load(Relaxed) >= capacity.
InsertCheck(t) ==
    LET th == threads[t] IN
    /\ th.pc = "check"
    /\ threads' = [threads EXCEPT ![t] =
                      IF InsertFull(Cur) THEN Returned(th, RetFalse)
                      ELSE [th EXCEPT !.pc = "push"]]
    /\ Becomes(Cur)
    /\ UNCHANGED start

\* Map::insert, lib.rs:96-102: keys.push(key).  The slot is the thread's own
\* until a cell refers to it.
InsertPush(t) ==
    LET th == threads[t]
        pushed == ConcurrentArray_push(Cur, th.key)
    IN
    /\ th.pc = "push"
    /\ threads' = [threads EXCEPT ![t] =
                      IF ~pushed.ok THEN Returned(th, RetFalse)
                      ELSE [th EXCEPT !.pc = "cas", !.off = pushed.index,
                                      !.index = wrap_index(hash(th.key), capacity)]]
    /\ Becomes(pushed.m)
    /\ UNCHANGED start

\* Map::insert, lib.rs:110-143: one iteration of the loop, up to the
\* fetch_update and the comparison of the keys that follows its failure.
InsertCas(t) ==
    LET th == threads[t]
        pos == get_cell(th.index, size_mask)
        current == cells[pos]
        upd == InsertUpdate(current, th.off, th.value)
        existing_key == KeyOf(Cur, current.key_offset)
        alloc_key == slots[th.off]
    IN
    /\ th.pc = "cas"
    /\ IF upd.some
       THEN /\ threads' = [threads EXCEPT ![t] = [th EXCEPT !.pc = "count"]]
            /\ Becomes([Cur EXCEPT !.cells[pos] = upd.cell])
       ELSE /\ threads' = [threads EXCEPT ![t] =
                              IF existing_key.some /\ existing_key.val = alloc_key
                              THEN [th EXCEPT !.pc = "rollback"]
                              ELSE [th EXCEPT !.index =
                                       wrap_index(th.index + 1, capacity)]]
            /\ Becomes(Cur)
    /\ UNCHANGED start

\* Map::insert, lib.rs:130-131: count.fetch_add(1), return true.
InsertCount(t) ==
    LET th == threads[t] IN
    /\ th.pc = "count"
    /\ threads' = [threads EXCEPT ![t] = Returned(th, RetTrue)]
    /\ Becomes([Cur EXCEPT !.count = count + 1])
    /\ UNCHANGED start

\* Map::insert, lib.rs:137-138: keys.remove(new_key_offset), return false.
InsertRollback(t) ==
    LET th == threads[t] IN
    /\ th.pc = "rollback"
    /\ threads' = [threads EXCEPT ![t] = Returned(th, RetFalse)]
    /\ Becomes(ConcurrentArray_remove(Cur, th.off).m)
    /\ UNCHANGED start

\* Map::get, lib.rs:226-250: one iteration of the loop, a load of the cell.
GetStep(t) ==
    LET th == threads[t]
        visit == GetVisit(Cur, cells[get_cell(th.index, size_mask)], th.key)
    IN
    /\ th.pc = "get"
    /\ threads' = [threads EXCEPT ![t] =
          IF visit = RetContinue
          THEN [th EXCEPT !.index = wrap_index(th.index + 1, capacity)]
          ELSE Returned(th, visit)]
    /\ Becomes(Cur)
    /\ UNCHANGED start

\* Map::remove, lib.rs:269-305: one iteration of the loop, a fetch_update.
RemoveStep(t) ==
    LET th == threads[t]
        pos == get_cell(th.index, size_mask)
        previous == cells[pos]
        upd == RemoveUpdate(Cur, previous, th.key)
    IN
    /\ th.pc = "remove"
    /\ IF upd.some
       THEN /\ threads' = [threads EXCEPT ![t] =
                              IF RemoveDecrements(previous)
                              THEN [th EXCEPT !.pc = "uncount"]
                              ELSE Returned(th, RetUnit)]
            /\ Becomes([Cur EXCEPT !.cells[pos] = upd.cell])
       ELSE /\ threads' = [threads EXCEPT ![t] =
                              [th EXCEPT !.index = wrap_index(th.index + 1, capacity)]]
            /\ Becomes(Cur)
    /\ UNCHANGED start

\* Map::remove, lib.rs:296-300: count.fetch_sub(1), return.
RemoveUncount(t) ==
    LET th == threads[t] IN
    /\ th.pc = "uncount"
    /\ threads' = [threads EXCEPT ![t] = Returned(th, RetUnit)]
    /\ Becomes([Cur EXCEPT !.count = count_fetch_sub(count)])
    /\ UNCHANGED start

\* Map::compare_exchange, lib.rs:163-200: one iteration of the loop.
CompareExchangeStep(t) ==
    LET th == threads[t]
        pos == get_cell(th.index, size_mask)
        previous == cells[pos]
        upd == CompareExchangeUpdate(Cur, previous, th.key, th.expected, th.value)
    IN
    /\ th.pc = "compare_exchange"
    /\ IF upd.some
       THEN /\ threads' = [threads EXCEPT ![t] =
                              Returned(th, CompareExchangeResult(previous, th.expected))]
            /\ Becomes([Cur EXCEPT !.cells[pos] = upd.cell])
       ELSE /\ threads' = [threads EXCEPT ![t] =
                              [th EXCEPT !.index = wrap_index(th.index + 1, capacity)]]
            /\ Becomes(Cur)
    /\ UNCHANGED start

\* One atomic operation of a thread that is in an insert, a remove or a
\* compare_exchange.
UpdateStep(t) ==
    \/ InsertCheck(t)
    \/ InsertPush(t)
    \/ InsertCas(t)
    \/ InsertCount(t)
    \/ InsertRollback(t)
    \/ RemoveStep(t)
    \/ RemoveUncount(t)
    \/ CompareExchangeStep(t)

InitConcurrent == New(MaxCapacityConcurrent, KeysConcurrent)

\* Every interleaving of the threads' inserts, removes and updates.
NextConcurrent ==
    \/ \E calls \in [Threads -> UpdateCalls(MaxValueConcurrent) \cup {NoCall}] :
          Begin(calls)
    \/ \E t \in Threads : UpdateStep(t)
    \/ Finish

SpecConcurrent == InitConcurrent /\ [][NextConcurrent]_vars

\* The same, with gets by the first thread.
Reader == CHOOSE t \in Threads : \A u \in Threads : t <= u

NextConcurrentGet ==
    \/ \E calls \in [Threads -> UpdateCalls(MaxValueConcurrentGet)
                                     \cup GetCalls \cup {NoCall}] :
          /\ calls[Reader] \in GetCalls \cup {NoCall}
          /\ \A t \in Threads \ {Reader} : calls[t] \notin GetCalls
          /\ Begin(calls)
    \/ \E t \in Threads : UpdateStep(t)
    \/ \E t \in Threads : GetStep(t)
    \/ Finish

SpecConcurrentGet == InitConcurrent /\ [][NextConcurrentGet]_vars

(***************************************************************************)
(* The key store alone (src/src/array.rs): threads that push items to and  *)
(* pop indices from one ConcurrentArray.  A push is two steps, the         *)
(* fetch_update on the cursor and the write of the item into the slot; a   *)
(* pop is one compare_exchange.  A thread holds the slots its pushes       *)
(* returned until a pop of their index succeeds, whoever calls it.         *)
(***************************************************************************)
IdleArenaThread ==
    [pc |-> "idle", off |-> 0, popped |-> FALSE, held |-> {}, ret |-> RetUnit]

InitArena ==
    /\ requested \in 0 .. MaxCapacityArena
    /\ capacity = 0
    /\ size_mask = 0
    /\ array_capacity = requested
    /\ byte_capacity = requested * ElemSize
    /\ cells = << >>
    /\ slots = [i \in 0 .. (requested - 1) |-> Uninit]
    /\ next = 0
    /\ count = 0
    /\ stopped = "no"
    /\ inserted = << >>
    /\ removed = {}
    /\ published = {}
    /\ threads = [t \in Threads |-> IdleArenaThread]
    /\ start = [cells |-> cells, slots |-> slots, next |-> 0, count |-> 0]

\* The arena after a step of a thread.
ArenaBecomes(m) ==
    /\ slots' = m.slots
    /\ next' = m.next
    /\ UNCHANGED << requested, capacity, size_mask, byte_capacity, array_capacity,
                    cells, count, stopped, inserted, removed, published, start >>

\* ConcurrentArray::push, array.rs:32: self.inner.push()?, the fetch_update
\* on the cursor.
ArenaPush(t) ==
    LET th == threads[t]
        r == ConcurrentArena_push(Cur)
    IN
    /\ th.pc = "idle"
    /\ threads' = [threads EXCEPT ![t] =
          IF ~r.ok
          THEN [th EXCEPT !.ret = RetNone]
          ELSE [th EXCEPT !.pc = "write", !.off = r.index \div ElemSize,
                          !.popped = FALSE]]
    /\ ArenaBecomes(r.m)

\* ConcurrentArray::push, array.rs:33-37: ptr.write(item), Some((&T, index)).
\* The item a thread pushes is its own number.
ArenaWrite(t) ==
    LET th == threads[t] IN
    /\ th.pc = "write"
    /\ threads' = [threads EXCEPT ![t] =
          [th EXCEPT !.pc = "idle", !.off = 0, !.popped = FALSE,
                     !.held = IF th.popped THEN th.held ELSE th.held \cup {th.off},
                     !.ret = RetSome(th.off)]]
    /\ ArenaBecomes([Cur EXCEPT !.slots[th.off] = t])

\* The thread after a pop of `index` by some thread has succeeded: it no
\* longer holds that slot.
AfterPop(th, index) ==
    [th EXCEPT !.held = th.held \ {index},
               !.popped = th.popped \/ (th.pc = "write" /\ th.off = index)]

\* ConcurrentArray::remove(index), array.rs:42-47.
ArenaRemove(t, index) ==
    LET th == threads[t]
        r == ConcurrentArray_remove(Cur, index)
    IN
    /\ th.pc = "idle"
    /\ threads' = [u \in Threads |->
          LET after == IF r.ok THEN AfterPop(threads[u], index) ELSE threads[u] IN
          IF u = t
          THEN [after EXCEPT !.ret = IF r.ok THEN RetTrue ELSE RetFalse]
          ELSE after]
    /\ ArenaBecomes(r.m)

\* Every interleaving of pushes and pops; a pop may name any index, one at
\* the capacity included.
NextArena ==
    \/ \E t \in Threads : ArenaPush(t)
    \/ \E t \in Threads : ArenaWrite(t)
    \/ \E t \in Threads, index \in 0 .. array_capacity : ArenaRemove(t, index)

SpecArena == InitArena /\ [][NextArena]_vars

(***************************************************************************)
(* The descriptors of a map of one of the largest capacities.  Such a map  *)
(* takes tens of thousands of inserts; what is followed here is the        *)
(* arithmetic of each: the capacity check, the slot the arena hands out    *)
(* and the descriptor the closure of insert computes for it.  The table is *)
(* reduced to the cell the insert writes, taken EMPTY, and the key store   *)
(* to its cursor.                                                          *)
(***************************************************************************)
InitDescriptors ==
    /\ requested \in (I16Max - NumLargest + 1) .. I16Max
    /\ capacity = EffectiveCapacity(requested)
    /\ size_mask = TableSize(requested) - 1
    /\ array_capacity = KeysCapacity(requested)
    /\ byte_capacity = KeysCapacity(requested) * ElemSize
    /\ cells = << ZeroCell >>
    /\ slots = << >>
    /\ next = 0
    /\ count = 0
    /\ stopped = "no"
    /\ inserted = << >>
    /\ removed = {}
    /\ published = {}
    /\ threads = [t \in Threads |-> IdleThread]
    /\ start = [cells |-> cells, slots |-> slots, next |-> 0, count |-> 0]

\* An insert of a key that is not in the map, into an EMPTY cell.
InsertDescriptor ==
    LET pushed == ConcurrentArena_push(Cur)
        upd == InsertUpdate(ZeroCell, pushed.index \div ElemSize, 0)
    IN
    /\ ~InsertFull(Cur)
    /\ pushed.ok
    /\ cells' = << upd.cell >>
    /\ next' = pushed.m.next
    /\ count' = count + 1
    /\ UNCHANGED << requested, capacity, size_mask, byte_capacity, array_capacity,
                    slots, stopped, inserted, removed, published, threads, start >>

SpecDescriptors == InitDescriptors /\ [][InsertDescriptor]_vars

(***************************************************************************)
(* HashStore (src/src/store.rs): an open-addressed table over values only. *)
(* A slot is a Cell {state, value}: an atomic HashState and a payload that *)
(* is written and read outside the atomic.  Here `capacity` is             *)
(* HashStore.capacity, `size_mask` is size_mask(), `cells` is the flat     *)
(* array of the buckets' cells and `count` is HashStore.count.             *)
(***************************************************************************)
\* The capacities of the stores checked: BUCKET_CAPACITY * 2^k buckets' worth.
MaxLogBucketsStore == 0
\* The values stored: 0 .. NumValuesStore - 1; two values share each hash.
NumValuesStore == 4

StoreValues == 0 .. (NumValuesStore - 1)

RECURSIVE Pow2(_)
Pow2(k) == IF k = 0 THEN 1 ELSE 2 * Pow2(k - 1)

StoreCapacities == {BUCKET_CAPACITY * Pow2(k) : k \in 0 .. MaxLogBucketsStore}

\* enum HashState { Empty = 0, Deleted, Inserting(u32), Occupied(u32) }
HashState_Empty == [tag |-> "Empty", hash |-> 0]
HashState_Deleted == [tag |-> "Deleted", hash |-> 0]
HashState_Inserting(h) == [tag |-> "Inserting", hash |-> h]
HashState_Occupied(h) == [tag |-> "Occupied", hash |-> h]

\* A zeroed Cell<T>: state Empty, payload not initialised.
ZeroStoreCell == [state |-> HashState_Empty, value |-> Uninit]

\* HashStore::effective_capacity
effective_capacity == capacity - MIN_KEY

\* The result of a fetch_update on a slot's state.
StateSome(state) == [some |-> TRUE, state |-> state]
StateNone == [some |-> FALSE, state |-> HashState_Empty]

\* The cell of the store that `index` designates.
StoreCellAt(m, index) == m.cells[get_cell(index, size_mask)]

\* An insert that claims Occupied slots as well.
StoreInsertUpdate_ClaimsOccupied(current, index_hash) ==
    IF current.tag \in {"Empty", "Deleted", "Occupied"}
    THEN StateSome(HashState_Inserting(index_hash))
    ELSE StateNone

\* HashStore::insert, the closure of its fetch_update.
StoreInsertUpdate(current, index_hash) ==
    IF current.tag \in {"Empty", "Deleted"}
    THEN StateSome(HashState_Inserting(index_hash))
    ELSE StateNone

\* A remove that takes a slot in the Inserting state as well.
StoreRemoveUpdate_TakesInserting(current) ==
    IF current.tag \in {"Occupied", "Inserting"}
    THEN StateSome(HashState_Deleted)
    ELSE StateNone

\* HashStore::remove, the closure of its fetch_update.
StoreRemoveUpdate(current) ==
    IF current.tag = "Occupied" THEN StateSome(HashState_Deleted) ELSE StateNone

\* HashStore::find, the end of the loop's body:
\* index = wrap!(index, effective_capacity).
FindAdvance(index) == wrap_index(index, effective_capacity)

\* HashStore::find, the loop, with no other call in progress.  A slot in
\* the Inserting state with the value's hash is read again and again; the
\* loop never returns once it comes to a slot it has visited.
RECURSIVE FindLoop(_, _, _, _)
FindLoop(m, value, index, visited) ==
    LET cell == StoreCellAt(m, index)
        index_hash == hash(value)
    IN
    IF index \in visited
    THEN RetHang
    ELSE IF cell.state.tag = "Occupied" /\ cell.state.hash = index_hash
            /\ cell.value = value
    THEN RetSome(index)
    ELSE IF cell.state.tag = "Inserting" /\ cell.state.hash = index_hash
    THEN RetHang
    ELSE IF cell.state.tag = "Empty"
    THEN RetNone
    ELSE FindLoop(m, value, FindAdvance(index), visited \cup {index})

\* HashStore::find(value) -> Option<usize>
HashStore_find(m, value) ==
    FindLoop(m, value, wrap_index(hash(value), effective_capacity), {})

\* HashStore::insert, the loop, with no other call in progress.
RECURSIVE StoreInsertLoop(_, _, _, _)
StoreInsertLoop(m, value, index, steps) ==
    LET pos == get_cell(index, size_mask)
        cell == m.cells[pos]
        index_hash == hash(value)
        upd == StoreInsertUpdate(cell.state, index_hash)
    IN
    IF steps >= effective_capacity
    THEN [ret |-> RetHang, m |-> m]
    ELSE IF upd.some
    THEN [ret |-> RetSome(index),
          m |-> [m EXCEPT !.cells[pos] = [state |-> HashState_Occupied(index_hash),
                                          value |-> value],
                          !.count = m.count + 1]]
    ELSE IF cell.state.hash = index_hash /\ cell.value = value
    THEN [ret |-> RetNone, m |-> m]
    ELSE StoreInsertLoop(m, value, wrap_index(index + 1, effective_capacity),
                         steps + 1)

\* HashStore::insert, the capacity check: count >= effective_capacity().
\* count is a usize: a fetch_sub on 0 wraps to usize::MAX, kept as -1, and
\* the comparison is unsigned.
StoreFull(m) == m.count < 0 \/ m.count >= effective_capacity

\* HashStore::insert::<CHECK_UNIQUE>(value) -> Option<usize>
HashStore_insert(m, check_unique, value) ==
    LET found == IF check_unique THEN HashStore_find(m, value) ELSE RetNone IN
    IF found = RetHang
    THEN [ret |-> RetHang, m |-> m]
    ELSE IF found.tag = "Some"
    THEN [ret |-> RetNone, m |-> m]
    ELSE IF StoreFull(m)
    THEN [ret |-> RetNone, m |-> m]
    ELSE StoreInsertLoop(m, value, wrap_index(hash(value), effective_capacity), 0)

\* HashStore::get(index) -> Option<T>, with no other call in progress.
HashStore_get(m, index) ==
    LET cell == StoreCellAt(m, index) IN
    IF cell.state.tag = "Occupied"
    THEN RetSome(cell.value)
    ELSE IF cell.state.tag = "Inserting"
    THEN RetHang
    ELSE RetNone

\* HashStore::remove(index) -> bool, with no other call in progress.
HashStore_remove(m, index) ==
    LET pos == get_cell(index, size_mask)
        cell == m.cells[pos]
        upd == StoreRemoveUpdate(cell.state)
    IN
    IF upd.some
    THEN [ret |-> RetTrue,
          m |-> [m EXCEPT !.cells[pos].state = upd.state,
                          !.count = count_fetch_sub(m.count)]]
    ELSE IF cell.state.tag = "Inserting"
    THEN [ret |-> RetHang, m |-> m]
    ELSE [ret |-> RetFalse, m |-> m]

\* HashStore::values_eq(index1, index2) -> bool, with no other call in
\* progress.
HashStore_values_eq(m, index1, index2) ==
    LET cell1 == StoreCellAt(m, index1)
        cell2 == StoreCellAt(m, index2)
    IN
    IF cell1.state.tag = "Occupied" /\ cell2.state.tag = "Occupied"
    THEN IF cell1.state.hash # cell2.state.hash
         THEN RetFalse
         ELSE IF cell1.value = cell2.value THEN RetTrue ELSE RetFalse
    ELSE IF cell1.state.tag \in {"Inserting", "Occupied"}
            /\ cell2.state.tag \in {"Inserting", "Occupied"}
    THEN IF cell1.state.hash # cell2.state.hash THEN RetFalse ELSE RetHang
    ELSE RetFalse

(***************************************************************************)
(* A HashStore whose calls never overlap: each call runs from its start to *)
(* its return before the next one starts.                                  *)
(***************************************************************************)
\* What a thread of the store keeps: the call, its arguments and locals,
\* whether it has read the payload of a slot in the Inserting state, and
\* the result of its last call.
IdleStoreThread ==
    [pc |-> "idle", op |-> "none", check |-> FALSE, value |-> 0, index |-> 0,
     index2 |-> 0, state1 |-> HashState_Empty, seen |-> Uninit,
     raced |-> FALSE, ret |-> RetUnit]

\* HashStore::with_capacity(capacity)
InitStore ==
    /\ requested \in StoreCapacities
    /\ capacity = requested
    /\ size_mask = capacity - 1
    /\ array_capacity = 0
    /\ byte_capacity = 0
    /\ cells = [p \in 0 .. (BucketCount(capacity) * BUCKET_CAPACITY - 1)
                  |-> ZeroStoreCell]
    /\ slots = << >>
    /\ next = 0
    /\ count = 0
    /\ stopped = "no"
    /\ inserted = << >>
    /\ removed = {}
    /\ published = {}
    /\ threads = [t \in Threads |-> IdleStoreThread]
    /\ start = [cells |-> cells, slots |-> slots, next |-> 0, count |-> 0]

\* The indices passed to get, remove and values_eq: every index insert can
\* return, and the first one it cannot.
StoreIndices == 0 .. effective_capacity

\* The store after a call or a step: m, and the threads as given.
StoreBecomes(m, ths) ==
    /\ cells' = m.cells
    /\ count' = m.count
    /\ threads' = ths
    /\ UNCHANGED << requested, capacity, size_mask, byte_capacity, array_capacity,
                    slots, next, inserted, removed, published >>

\* A whole call made by thread t: the store it produces and its result, the
\* only one kept.  A call that never returns ends the run.
StoreReturns(t, call, ret, m) ==
    /\ stopped = "no"
    /\ StoreBecomes(m, [u \in Threads |->
                           IF u = t
                           THEN [call EXCEPT !.pc = IF ret = RetHang THEN "hang"
                                                    ELSE "idle",
                                             !.ret = ret]
                           ELSE IdleStoreThread])
    /\ stopped' = IF ret = RetHang THEN "hang" ELSE "no"
    /\ UNCHANGED start

\* store.insert::<CHECK_UNIQUE>(value)
StoreInsert(t, check_unique, value) ==
    LET r == HashStore_insert(Cur, check_unique, value) IN
    StoreReturns(t, [IdleStoreThread EXCEPT !.op = "insert", !.check = check_unique,
                                            !.value = value],
                 r.ret, r.m)

\* store.find(&value)
StoreFind(t, value) ==
    StoreReturns(t, [IdleStoreThread EXCEPT !.op = "find", !.value = value],
                 HashStore_find(Cur, value), Cur)

\* store.get(index)
StoreGet(t, index) ==
    StoreReturns(t, [IdleStoreThread EXCEPT !.op = "get", !.index = index],
                 HashStore_get(Cur, index), Cur)

\* store.remove(index)
StoreRemove(t, index) ==
    LET r == HashStore_remove(Cur, index) IN
    StoreReturns(t, [IdleStoreThread EXCEPT !.op = "remove", !.index = index],
                 r.ret, r.m)

\* store.values_eq(index1, index2)
StoreValuesEq(t, index1, index2) ==
    StoreReturns(t, [IdleStoreThread EXCEPT !.op = "values_eq", !.index = index1,
                                            !.index2 = index2],
                 HashStore_values_eq(Cur, index1, index2), Cur)

NextStore ==
    \E t \in Threads :
        \/ \E check_unique \in BOOLEAN, value \in StoreValues :
              StoreInsert(t, check_unique, value)
        \/ \E value \in StoreValues : StoreFind(t, value)
        \/ \E index \in StoreIndices : StoreGet(t, index)
        \/ \E index \in StoreIndices : StoreRemove(t, index)
        \/ \E index1 \in StoreIndices, index2 \in StoreIndices :
              StoreValuesEq(t, index1, index2)

SpecStore == InitStore /\ [][NextStore]_vars

(***************************************************************************)
(* A HashStore shared by threads (its methods take &self), one atomic      *)
(* operation or one access to a payload per step.  A loop that loads a     *)
(* state again without anything changed takes no step.  A payload read     *)
(* while its slot is in the Inserting state races with the writer: it may  *)
(* give any value.                                                         *)
(***************************************************************************)
\* The values stored by the threads: 0 .. NumValuesStoreConcurrent - 1.
NumValuesStoreConcurrent == 3

StoreValuesConcurrent == 0 .. (NumValuesStoreConcurrent - 1)

\* The indices the threads pass to get, remove and values_eq: those insert
\* can return.
StoreIndicesConcurrent == 0 .. (effective_capacity - 1)

\* The calls a thread can make.
StoreCalls ==
    {[IdleStoreThread EXCEPT !.pc = IF check_unique THEN "find_load" ELSE "ins_check",
                             !.op = "insert", !.check = check_unique,
                             !.value = value,
                             !.index = wrap_index(hash(value), effective_capacity)] :
        check_unique \in BOOLEAN, value \in StoreValuesConcurrent}
    \cup {[IdleStoreThread EXCEPT !.pc = "find_load", !.op = "find", !.value = value,
                                  !.index = wrap_index(hash(value), effective_capacity)] :
             value \in StoreValuesConcurrent}
    \cup {[IdleStoreThread EXCEPT !.pc = "get_load", !.op = "get", !.index = index] :
             index \in StoreIndicesConcurrent}
    \cup {[IdleStoreThread EXCEPT !.pc = "rem_cas", !.op = "remove", !.index = index] :
             index \in StoreIndicesConcurrent}
    \cup {[IdleStoreThread EXCEPT !.pc = "eq_load1", !.op = "values_eq",
                                  !.index = index1, !.index2 = index2] :
             index1 \in StoreIndicesConcurrent, index2 \in StoreIndicesConcurrent}

\* The thread once its call has returned ret: its locals are gone, the
\* result stays.
StoreReturned(th, ret) ==
    [IdleStoreThread EXCEPT !.raced = th.raced, !.ret = ret]

\* What a read of the payload of `cell` can give.
PayloadsRead(cell) ==
    IF cell.state.tag = "Inserting" THEN StoreValuesConcurrent ELSE {cell.value}

\* The thread after a read of the payload of `cell`.
AfterRead(th, cell) ==
    [th EXCEPT !.raced = th.raced \/ cell.state.tag = "Inserting"]

\* A step of thread t that leaves the store as it is.
StoreThreadBecomes(t, th) ==
    /\ StoreBecomes(Cur, [threads EXCEPT ![t] = th])
    /\ UNCHANGED << stopped, start >>

\* A step of thread t that changes the cell at `pos`.
StoreCellBecomes(t, th, pos, cell) ==
    /\ StoreBecomes([Cur EXCEPT !.cells[pos] = cell], [threads EXCEPT ![t] = th])
    /\ UNCHANGED << stopped, start >>

\* A step of thread t that changes the count.
StoreCountBecomes(t, th, c) ==
    /\ StoreBecomes([Cur EXCEPT !.count = c], [threads EXCEPT ![t] = th])
    /\ UNCHANGED << stopped, start >>

\* A thread starts a call.
StoreStart(t, call) ==
    /\ threads[t].pc = "idle"
    /\ StoreThreadBecomes(t, call)

\* find has its result: find returns it; insert::<true> returns None if it
\* is Some and goes on to its capacity check otherwise (store.rs:58-60).
FindDone(th, found) ==
    IF th.op = "find"
    THEN StoreReturned(th, found)
    ELSE IF found.tag = "Some"
    THEN StoreReturned(th, RetNone)
    ELSE [th EXCEPT !.pc = "ins_check"]

\* HashStore::find, store.rs:142-160: the load of the state of the slot.
StoreFindLoad(t) ==
    LET th == threads[t]
        state == StoreCellAt(Cur, th.index).state
        index_hash == hash(th.value)
    IN
    /\ th.pc = "find_load"
    /\ StoreThreadBecomes(t,
          IF state.tag = "Occupied" /\ state.hash = index_hash
          THEN [th EXCEPT !.pc = "find_read"]
          ELSE IF state.tag = "Inserting" /\ state.hash = index_hash
          THEN th
          ELSE IF state.tag = "Empty"
          THEN FindDone(th, RetNone)
          ELSE [th EXCEPT !.index = FindAdvance(th.index)])

\* HashStore::find, store.rs:146-149: the read of the payload and the
\* comparison.
StoreFindRead(t) ==
    LET th == threads[t]
        cell == StoreCellAt(Cur, th.index)
    IN
    /\ th.pc = "find_read"
    /\ \E existing \in PayloadsRead(cell) :
          StoreThreadBecomes(t,
             IF existing = th.value
             THEN FindDone(AfterRead(th, cell), RetSome(th.index))
             ELSE [AfterRead(th, cell) EXCEPT !.pc = "find_load",
                                              !.index = FindAdvance(th.index)])

\* HashStore::insert, store.rs:62-67: the load of count.
StoreInsertCheck(t) ==
    LET th == threads[t] IN
    /\ th.pc = "ins_check"
    /\ StoreThreadBecomes(t,
          IF StoreFull(Cur)
          THEN StoreReturned(th, RetNone)
          ELSE [th EXCEPT !.pc = "ins_cas",
                          !.index = wrap_index(hash(th.value), effective_capacity)])

\* HashStore::insert, store.rs:72-85, 95-99, 113: the fetch_update of the
\* state of the slot and, when it fails, the comparison of the hashes.
StoreInsertCas(t) ==
    LET th == threads[t]
        pos == get_cell(th.index, size_mask)
        previous == cells[pos].state
        index_hash == hash(th.value)
        upd == StoreInsertUpdate(previous, index_hash)
    IN
    /\ th.pc = "ins_cas"
    /\ IF upd.some
       THEN StoreCellBecomes(t, [th EXCEPT !.pc = "ins_write"], pos,
                             [cells[pos] EXCEPT !.state = upd.state])
       ELSE StoreThreadBecomes(t,
               IF previous.hash = index_hash
               THEN [th EXCEPT !.pc = "ins_read"]
               ELSE [th EXCEPT !.index =
                        wrap_index(th.index + 1, effective_capacity)])

\* HashStore::insert, store.rs:101-104, 113: the read of the payload of the
\* slot that was not claimed, and the comparison.
StoreInsertRead(t) ==
    LET th == threads[t]
        cell == StoreCellAt(Cur, th.index)
    IN
    /\ th.pc = "ins_read"
    /\ \E existing \in PayloadsRead(cell) :
          StoreThreadBecomes(t,
             IF existing = th.value
             THEN StoreReturned(AfterRead(th, cell), RetNone)
             ELSE [AfterRead(th, cell) EXCEPT
                      !.pc = "ins_cas",
                      !.index = wrap_index(th.index + 1, effective_capacity)])

\* HashStore::insert, store.rs:88-89: the write of the payload.
StoreInsertWrite(t) ==
    LET th == threads[t]
        pos == get_cell(th.index, size_mask)
    IN
    /\ th.pc = "ins_write"
    /\ StoreCellBecomes(t, [th EXCEPT !.pc = "ins_store"], pos,
                        [cells[pos] EXCEPT !.value = th.value])

\* HashStore::insert, store.rs:90-91: the store of Occupied(index_hash).
StoreInsertStore(t) ==
    LET th == threads[t]
        pos == get_cell(th.index, size_mask)
    IN
    /\ th.pc = "ins_store"
    /\ StoreCellBecomes(t, [th EXCEPT !.pc = "ins_count"], pos,
                        [cells[pos] EXCEPT !.state = HashState_Occupied(hash(th.value))])

\* HashStore::insert, store.rs:92-93: count.fetch_add(1), return Some(index).
StoreInsertCount(t) ==
    LET th == threads[t] IN
    /\ th.pc = "ins_count"
    /\ StoreCountBecomes(t, StoreReturned(th, RetSome(th.index)), count + 1)

\* HashStore::get, store.rs:122-128: the load of the state.
StoreGetLoad(t) ==
    LET th == threads[t]
        state == StoreCellAt(Cur, th.index).state
    IN
    /\ th.pc = "get_load"
    /\ StoreThreadBecomes(t,
          IF state.tag = "Occupied"
          THEN [th EXCEPT !.pc = "get_read"]
          ELSE IF state.tag = "Inserting"
          THEN th
          ELSE StoreReturned(th, RetNone))

\* HashStore::get, store.rs:124: the read of the payload.
StoreGetRead(t) ==
    LET th == threads[t]
        cell == StoreCellAt(Cur, th.index)
    IN
    /\ th.pc = "get_read"
    /\ \E existing \in PayloadsRead(cell) :
          StoreThreadBecomes(t, StoreReturned(AfterRead(th, cell), RetSome(existing)))

\* HashStore::remove, store.rs:207-225: the fetch_update of the state.
StoreRemoveCas(t) ==
    LET th == threads[t]
        pos == get_cell(th.index, size_mask)
        previous == cells[pos].state
        upd == StoreRemoveUpdate(previous)
    IN
    /\ th.pc = "rem_cas"
    /\ IF upd.some
       THEN StoreCellBecomes(t, [th EXCEPT !.pc = "rem_count"], pos,
                             [cells[pos] EXCEPT !.state = upd.state])
       ELSE StoreThreadBecomes(t,
               IF previous.tag = "Inserting"
               THEN th
               ELSE StoreReturned(th, RetFalse))

\* HashStore::remove, store.rs:218-219: count.fetch_sub(1), return true.
StoreRemoveCount(t) ==
    LET th == threads[t] IN
    /\ th.pc = "rem_count"
    /\ StoreCountBecomes(t, StoreReturned(th, RetTrue), count_fetch_sub(count))

\* HashStore::values_eq, store.rs:170: the load of the first state.
StoreEqLoad1(t) ==
    LET th == threads[t] IN
    /\ th.pc = "eq_load1"
    /\ StoreThreadBecomes(t, [th EXCEPT !.pc = "eq_load2",
                                        !.state1 = StoreCellAt(Cur, th.index).state])

\* HashStore::values_eq, store.rs:171-198: the load of the second state and
\* the match on the two.
StoreEqLoad2(t) ==
    LET th == threads[t]
        state1 == th.state1
        state2 == StoreCellAt(Cur, th.index2).state
    IN
    /\ th.pc = "eq_load2"
    /\ StoreThreadBecomes(t,
          IF state1.tag = "Occupied" /\ state2.tag = "Occupied"
          THEN IF state1.hash # state2.hash
               THEN StoreReturned(th, RetFalse)
               ELSE [th EXCEPT !.pc = "eq_read1"]
          ELSE IF state1.tag \in {"Inserting", "Occupied"}
                  /\ state2.tag \in {"Inserting", "Occupied"}
          THEN IF state1.hash # state2.hash
               THEN StoreReturned(th, RetFalse)
               ELSE [th EXCEPT !.pc = "eq_load1", !.state1 = HashState_Empty]
          ELSE StoreReturned(th, RetFalse))

\* HashStore::values_eq, store.rs:177: the read of the first payload.
StoreEqRead1(t) ==
    LET th == threads[t]
        cell == StoreCellAt(Cur, th.index)
    IN
    /\ th.pc = "eq_read1"
    /\ \E value1 \in PayloadsRead(cell) :
          StoreThreadBecomes(t, [AfterRead(th, cell) EXCEPT !.pc = "eq_read2",
                                                            !.seen = value1])

\* HashStore::values_eq, store.rs:178-179: the read of the second payload
\* and the comparison.
StoreEqRead2(t) ==
    LET th == threads[t]
        cell == StoreCellAt(Cur, th.index2)
    IN
    /\ th.pc = "eq_read2"
    /\ \E value2 \in PayloadsRead(cell) :
          StoreThreadBecomes(t,
             StoreReturned(AfterRead(th, cell),
                           IF th.seen = value2 THEN RetTrue ELSE RetFalse))

\* Every interleaving of the threads' calls.
NextStoreConcurrent ==
    \E t \in Threads :
        \/ \E call \in StoreCalls : StoreStart(t, call)
        \/ StoreFindLoad(t)
        \/ StoreFindRead(t)
        \/ StoreInsertCheck(t)
        \/ StoreInsertCas(t)
        \/ StoreInsertRead(t)
        \/ StoreInsertWrite(t)
        \/ StoreInsertStore(t)
        \/ StoreInsertCount(t)
        \/ StoreGetLoad(t)
        \/ StoreGetRead(t)
        \/ StoreRemoveCas(t)
        \/ StoreRemoveCount(t)
        \/ StoreEqLoad1(t)
        \/ StoreEqLoad2(t)
        \/ StoreEqRead1(t)
        \/ StoreEqRead2(t)

SpecStoreConcurrent == InitStore /\ [][NextStoreConcurrent]_vars

(***************************************************************************)
(* The claims.  A claim about what a call does is stated of every call     *)
(* that can be made in a reachable state: Map_insert(Cur, k, v) is what    *)
(* Insert(k, v) does there, and likewise for the other calls.              *)
(***************************************************************************)
Running == stopped = "no"

\* The effective capacity as a formula of the requested one:
\* floor(0.6 * next_power_of_two(floor(C / 0.6))).
EffectiveOf(c) == (3 * next_power_of_two((5 * c) \div 3)) \div 5

\* C1: round trip.  After any sequence of inserts (and gets), every key whose
\* insert returned true is found by get, with the value that insert stored.
C1_RoundTrip ==
    \A k \in DOMAIN inserted :
        \A v \in inserted[k] : Map_get(Cur, k) = RetSome(v)

\* C1's case: a full map of four keys, two of them colliding and holding
\* different values.
C1_Witness ==
    /\ Running
    /\ capacity = 4
    /\ count = capacity
    /\ \E k1, k2 \in DOMAIN inserted :
          /\ k1 # k2
          /\ hash(k1) = hash(k2)
          /\ inserted[k1] # {}
          /\ inserted[k2] # {}
          /\ inserted[k1] # inserted[k2]
          /\ \A v \in inserted[k2] : Map_get(Cur, k2) = RetSome(v)

\* C2: duplicate rejection.  After any sequence of inserts and removes, if
\* get(k) is Some(v1) then insert(k, v2) returns false and get(k) is still
\* Some(v1) afterwards.
C2_DuplicateRejected ==
    Running =>
        \A k \in Keys, v2 \in Values :
            Map_get(Cur, k).tag = "Some" =>
                /\ Map_insert(Cur, k, v2).ret = RetFalse
                /\ Map_get(Map_insert(Cur, k, v2).m, k) = Map_get(Cur, k)

\* C3: remove semantics.  After any sequence of inserts and removes, once
\* remove(k) has returned and no insert of k has started since, get(k)
\* returns None: it returns no value.
C3_RemovedIsAbsent ==
    Running => \A k \in removed : Map_get(Cur, k).tag # "Some"

\* C4: after any sequence of inserts and removes, insert(k, v) returns true
\* whenever k is not in the map and count is below the effective capacity.
C4_InsertSucceeds ==
    Running =>
        \A k \in Keys, v \in Values :
            (~Occupies(Cur, k) /\ count < capacity) =>
                Map_insert(Cur, k, v).ret = RetTrue

\* C5: capacity bound.  Whenever count has reached the effective capacity,
\* an insert of a key that is not in the map returns false.
C5_FullRejects ==
    Running =>
        \A k \in Keys, v \in Values :
            (count >= capacity /\ ~Occupies(Cur, k)) =>
                Map_insert(Cur, k, v).ret = RetFalse

\* C5's case: a map that holds as many keys as its capacity, a tombstone
\* among its cells, and a key it does not hold, whose insert returns false.
C5_Witness ==
    /\ Running
    /\ capacity > 0
    /\ count = capacity
    /\ removed # {}
    /\ \E k \in Keys :
          /\ ~Occupies(Cur, k)
          /\ Map_insert(Cur, k, 0).ret = RetFalse

\* C6: a map built with capacity C stores C pairs: in a run of inserts, as
\* long as fewer than C inserts have succeeded, the insert of a key not yet
\* inserted returns true.
C6_StoresRequested ==
    Running =>
        \A k \in KeysInserts, v \in Values :
            (count < requested /\ ~Occupies(Cur, k)) =>
                Map_insert(Cur, k, v).ret = RetTrue

C9_AbsentIsErr ==
    Running =>
        \A k \in Keys, expected \in Values, new_val \in Values :
            LET r == Map_compare_exchange(Cur, k, expected, new_val) IN
            (~Occupies(Cur, k) /\ r.ret.tag \in {"Ok", "Err"}) =>
                r.ret.tag = "Err"

\* C10: stale value.  When get(k) is Some(c) and c # expected,
\* compare_exchange(k, expected, new) returns Err(c) and leaves every cell,
\* the count and the key store as they were.
C10_StaleValue ==
    Running =>
        \A k \in Keys, expected \in Values, new_val \in Values :
            LET c == Map_get(Cur, k)
                r == Map_compare_exchange(Cur, k, expected, new_val)
            IN  (c.tag = "Some" /\ c.val # expected) =>
                    /\ r.ret = RetErr(c.val)
                    /\ r.m = Cur

\* C10's case: a key in the map, past a colliding key, holding a value other
\* than the expected one.
C10_Witness ==
    /\ Running
    /\ \E k \in Keys, expected \in Values :
          LET c == Map_get(Cur, k)
              home == get_cell(wrap_index(hash(k), capacity), size_mask)
          IN  /\ c.tag = "Some"
              /\ c.val # expected
              /\ cells[home].key_offset >= MIN_KEY
              /\ KeyOf(Cur, cells[home].key_offset).val # k
              /\ \E new_val \in Values \ {c.val} :
                    Map_compare_exchange(Cur, k, expected, new_val).ret
                        = RetErr(c.val)

\* C11: every get, insert, remove and compare_exchange call, in every
\* reachable state and for every key, returns after examining a bounded
\* number of cells: no call probes forever.
C11_CallsReturn ==
    Running =>
        \A k \in KeysInserts :
            /\ Map_get(Cur, k).tag # "hang"
            /\ Map_remove(Cur, k).ret.tag # "hang"
            /\ \A v \in Values : Map_insert(Cur, k, v).ret.tag # "hang"
            /\ \A expected \in Values, new_val \in Values :
                  Map_compare_exchange(Cur, k, expected, new_val).ret.tag # "hang"

\* C12: remove(k) and compare_exchange(k, ..) on a key that is not in the
\* map leave every cell, the count and the key-store cursor as they were.
C12_AbsentKeyNoChange ==
    Running =>
        \A k \in Keys :
            ~Occupies(Cur, k) =>
                /\ LET r == Map_remove(Cur, k) IN
                      /\ r.m.cells = cells
                      /\ r.m.count = count
                      /\ r.m.next = next
                /\ \A expected \in Values, new_val \in Values :
                      LET r == Map_compare_exchange(Cur, k, expected, new_val) IN
                      /\ r.m.cells = cells
                      /\ r.m.count = count
                      /\ r.m.next = next

\* A map that holds a key, and an absent key whose remove walks past a
\* tombstone and returns.
C12_Witness ==
    /\ Running
    /\ count > 0
    /\ \E k \in Keys :
          /\ ~Occupies(Cur, k)
          /\ cells[get_cell(wrap_index(hash(k), capacity), size_mask)].key_offset
                = DELETED_KEY
          /\ Map_remove(Cur, k) = [ret |-> RetUnit, m |-> Cur]
          /\ \E expected \in Values, new_val \in Values :
                Map_compare_exchange(Cur, k, expected, new_val).ret.tag \in {"Ok", "Err"}

\* C13: an insert that fails for capacity reasons (count >= capacity, or
\* key store full) returns false and changes no cell, nor the count, nor
\* the key-store cursor.
C13_FullNoChange ==
    Running =>
        \A k \in Keys, v \in Values :
            (count >= capacity \/ next >= byte_capacity) =>
                LET r == Map_insert(Cur, k, v) IN
                /\ r.ret = RetFalse
                /\ r.m.cells = cells
                /\ r.m.count = count
                /\ r.m.next = next

\* An insert refused by the key store alone: count is below the capacity.
C13_Witness ==
    /\ Running
    /\ count < capacity
    /\ next >= byte_capacity
    /\ \E k \in Keys, v \in Values :
          /\ ~Occupies(Cur, k)
          /\ Map_insert(Cur, k, v).ret = RetFalse

\* C14: an insert rejected as a duplicate (it returns false although neither
\* the map nor the key store is full) rolls its key push back: the arena
\* cursor, every cell and the count are as before the call.
C14_DuplicateRollsBack ==
    Running =>
        \A k \in Keys, v \in Values :
            LET r == Map_insert(Cur, k, v) IN
            (r.ret = RetFalse /\ count < capacity /\ next < byte_capacity) =>
                /\ r.m.next = next
                /\ r.m.cells = cells
                /\ r.m.count = count

\* A duplicate found behind a colliding key: the key was pushed (the slot
\* past the cursor now holds it) and the cursor came back.
C14_Witness ==
    /\ Running
    /\ count < capacity
    /\ next < byte_capacity
    /\ \E k \in Keys, v \in Values :
          LET r == Map_insert(Cur, k, v)
              home == cells[get_cell(wrap_index(hash(k), capacity), size_mask)]
          IN
          /\ r.ret = RetFalse
          /\ home.key_offset >= MIN_KEY
          /\ KeyOf(Cur, home.key_offset).val # k
          /\ r.m.slots[next \div ElemSize] = k
          /\ slots[next \div ElemSize] # k
          /\ r.m.next = next

\* The OCCUPIED cells of m, and those among them whose descriptor refers
\* to `key`.
OccupiedCells(m) == {pos \in DOMAIN m.cells : m.cells[pos].key_offset >= MIN_KEY}

CellsOf(m, key) ==
    {pos \in OccupiedCells(m) : KeyOf(m, m.cells[pos].key_offset).val = key}

\* Thread t has returned from a call `op`.
Did(t, op) == threads[t].pc = "done" /\ threads[t].op = op

\* C15: in every quiescent state reached by any interleaving of overlapping
\* inserts, updates and removes, 0 <= count <= effective capacity.
C15_CountBound == Quiescent => (0 <= count /\ count <= capacity)

\* Two inserts of distinct keys, started together with one place left, have
\* both returned: one of them took the place and the map is full.
C15_Witness ==
    /\ Quiescent
    /\ capacity > 0
    /\ start.count = capacity - 1
    /\ count = capacity
    /\ \E t1 \in Threads, t2 \in Threads :
          /\ Did(t1, "insert") /\ threads[t1].ret = RetTrue
          /\ Did(t2, "insert") /\ threads[t2].ret = RetFalse
          /\ threads[t1].key # threads[t2].key

\* C16: in every quiescent state reached by any interleaving of overlapping
\* inserts, updates and removes, count is the number of OCCUPIED cells.
C16_CountIsOccupied == Quiescent => count = Cardinality(OccupiedCells(Cur))

\* An insert of an absent key and a remove of the same key, started
\* together, have both returned, and the remove took the key out again.
C16_Witness ==
    /\ Quiescent
    /\ count > 0
    /\ count = start.count
    /\ \E t1 \in Threads, t2 \in Threads :
          /\ Did(t1, "insert") /\ threads[t1].ret = RetTrue
          /\ Did(t2, "remove") /\ threads[t2].key = threads[t1].key
          /\ ~Occupies(start, threads[t1].key)
          /\ ~Occupies(Cur, threads[t1].key)

\* C17: when two threads insert, in overlapping calls, the same key that is
\* not in the map (there is room for it, and no other call runs), exactly
\* one insert returns true and the other false, exactly one cell is OCCUPIED
\* by the key afterwards, and count has gone up by exactly 1.
C17_InsertTieBreak ==
    Quiescent =>
        \A t1 \in Threads, t2 \in Threads :
            ( /\ t1 # t2
              /\ Did(t1, "insert") /\ Did(t2, "insert")
              /\ threads[t1].key = threads[t2].key
              /\ \A t \in Threads \ {t1, t2} : threads[t].op = "none"
              /\ ~Occupies(start, threads[t1].key)
              /\ start.count < capacity
              /\ start.next < byte_capacity )
            => /\ {threads[t1].ret, threads[t2].ret} = {RetTrue, RetFalse}
               /\ Cardinality(CellsOf(Cur, threads[t1].key)) = 1
               /\ count = start.count + 1

\* Both inserts pushed their key before either returned: the loser could
\* not roll its push back, and the cursor is two slots further.
C17_Witness ==
    /\ Quiescent
    /\ \E t1 \in Threads, t2 \in Threads :
          /\ t1 # t2
          /\ Did(t1, "insert") /\ threads[t1].ret = RetTrue
          /\ Did(t2, "insert") /\ threads[t2].ret = RetFalse
          /\ threads[t1].key = threads[t2].key
          /\ ~Occupies(start, threads[t1].key)
          /\ start.count < capacity
          /\ next = start.next + 2 * ElemSize

\* C18: a get(k) that runs while k is in the map with value v, and while no
\* other call on k runs, returns Some(v), whatever inserts and removes of
\* other keys, colliding ones included, came before or run at the same time.
C18_TombstoneTraversal ==
    \A t \in Threads :
        ( /\ Did(t, "get")
          /\ Map_get(start, threads[t].key).tag = "Some"
          /\ \A u \in Threads \ {t} :
                threads[u].op = "none" \/ threads[u].key # threads[t].key )
        => threads[t].ret = Map_get(start, threads[t].key)

\* The key sits behind the cell of a colliding key, which a remove running
\* together with the get has turned into a tombstone.
C18_Witness ==
    \E t \in Threads, u \in Threads :
        LET k == threads[t].key
            home == get_cell(wrap_index(hash(k), capacity), size_mask)
        IN
        /\ Did(t, "get") /\ threads[t].ret.tag = "Some"
        /\ Did(u, "remove") /\ threads[u].key # k
        /\ capacity > 0
        /\ start.cells[home].key_offset >= MIN_KEY
        /\ KeyOf(start, start.cells[home].key_offset).val = threads[u].key
        /\ cells[home].key_offset = DELETED_KEY

\* C19: every value a get(k) returns was stored for k: it is the value of a
\* cell k occupied when the calls started, or the value of an insert or
\* update of k running together with the get; it is never a value of
\* another key, nor the 0 of a cell never written.
C19_NoTornCells ==
    \A t \in Threads :
        (Did(t, "get") /\ threads[t].ret.tag = "Some") =>
            LET k == threads[t].key IN
            /\ threads[t].ret.val \in ValuesFor(k, MaxValueConcurrentGet)
            /\ threads[t].ret.val \in
                  {start.cells[pos].value : pos \in CellsOf(start, k)} \cup
                  {threads[u].value :
                      u \in {u \in Threads :
                                /\ threads[u].op \in {"insert", "compare_exchange"}
                                /\ threads[u].key = k}}

\* The get returned a value that an update running together with it stored,
\* in a table where another key's cell precedes k's.
C19_Witness ==
    \E t \in Threads, u \in Threads :
        LET k == threads[t].key
            home == get_cell(wrap_index(hash(k), capacity), size_mask)
        IN
        /\ Did(t, "get") /\ threads[t].ret.tag = "Some"
        /\ Did(u, "compare_exchange") /\ threads[u].key = k
        /\ threads[t].ret.val = threads[u].value
        /\ threads[t].ret.val \notin {start.cells[pos].value : pos \in CellsOf(start, k)}
        /\ capacity > 0
        /\ cells[home].key_offset >= MIN_KEY
        /\ KeyOf(Cur, cells[home].key_offset).val # k

\* C20: in every reachable state at least one cell of the table is EMPTY.
C20_SomeCellEmpty ==
    \E pos \in DOMAIN cells : cells[pos].key_offset = EMPTY_KEY

\* The cells that have been written: every cell but the EMPTY ones.
WrittenCells(m) == {pos \in DOMAIN m.cells : m.cells[pos].key_offset # EMPTY_KEY}

\* C21: a call changes a cell in one of four ways only: insert takes it from
\* EMPTY or from DELETED to OCCUPIED, compare_exchange gives an OCCUPIED cell
\* a new value under the same descriptor, remove takes an OCCUPIED cell to
\* DELETED (keeping its value); no cell returns to EMPTY and no OCCUPIED
\* cell receives another descriptor.
C21_CellTransitions ==
    [][\A pos \in DOMAIN cells :
          LET old == cells[pos]
              new == cells'[pos]
          IN
          \/ new = old
          \/ /\ old.key_offset \in {EMPTY_KEY, DELETED_KEY}
             /\ new.key_offset >= MIN_KEY
             /\ \E key \in Keys, value \in Values : Insert(key, value)
          \/ /\ old.key_offset >= MIN_KEY
             /\ new.key_offset = old.key_offset
             /\ \E key \in Keys, expected \in Values, new_val \in Values :
                   CompareExchange(key, expected, new_val)
          \/ /\ old.key_offset >= MIN_KEY
             /\ new.key_offset = DELETED_KEY
             /\ new.value = old.value
             /\ \E key \in Keys : Remove(key)]_vars

\* A cell is DELETED and the key store has handed out more slots than there
\* are written cells: a tombstone has been taken again by an insert.
C21_Witness ==
    /\ Running
    /\ \E pos \in DOMAIN cells : cells[pos].key_offset = DELETED_KEY
    /\ count > 0
    /\ next \div ElemSize > Cardinality(WrittenCells(Cur))

\* C22: every OCCUPIED cell is on the probe sequence of the key it holds,
\* and no cell of that sequence from the key's home index up to the cell is
\* EMPTY: a probe for the key cannot stop at an EMPTY cell before it.
C22_ProbePath ==
    Running =>
        \A pos \in OccupiedCells(Cur) :
            LET k == KeyOf(Cur, cells[pos].key_offset).val IN
            \E n \in 0 .. (capacity - 1) :
                /\ ProbeCell(k, n) = pos
                /\ \A j \in 0 .. (n - 1) :
                      cells[ProbeCell(k, j)].key_offset # EMPTY_KEY

\* A key sits past its home cell, and the home cell is a tombstone.
C22_Witness ==
    /\ Running
    /\ \E pos \in OccupiedCells(Cur) :
          LET k == KeyOf(Cur, cells[pos].key_offset).val IN
          \E n \in 1 .. (capacity - 1) :
              /\ ProbeCell(k, n) = pos
              /\ cells[ProbeCell(k, 0)].key_offset = DELETED_KEY

\* C23: in every step of every interleaving, every slot a cell has referred
\* to lies below the arena cursor and holds a key, its content does not
\* change (it is neither popped nor handed out to another push, whether the
\* cell still refers to it or has since been removed), and a cell that
\* becomes OCCUPIED refers to the slot its insert pushed, which holds the
\* key of that insert.
C23_KeyLiveness ==
    [][/\ \A off \in published' :
             /\ off * ElemSize < next'
             /\ slots'[off] \in KeysConcurrent
       /\ \A off \in published : slots'[off] = slots[off]
       /\ \A pos \in DOMAIN cells :
             (cells[pos].key_offset < MIN_KEY /\ cells'[pos].key_offset >= MIN_KEY)
             => \E t \in Threads :
                   /\ threads[t].pc = "cas"
                   /\ threads'[t].pc = "count"
                   /\ cells'[pos].key_offset = threads[t].off + MIN_KEY
                   /\ slots'[threads[t].off] = threads[t].key]_vars

\* An insert of a key that is in the map has popped its own slot again, and
\* a slot whose cell has been removed is still below the cursor.
C23_Witness ==
    /\ Quiescent
    /\ next = start.next
    /\ \E t \in Threads :
          /\ Did(t, "insert") /\ threads[t].ret = RetFalse
          /\ ~InsertFull(start)
          /\ start.next < byte_capacity
    /\ \E off \in published : off \notin Referenced(Cur)
    /\ Referenced(Cur) # {}

\* C24: the probe sequence of every key starts at hash & size_mask and
\* visits every allocated cell of the table before it repeats.
C24_ProbeCoversTable ==
    (Running /\ capacity > 0) =>
        \A k \in Keys :
            /\ ProbeIndex(k, 0) = hash(k) % (size_mask + 1)
            /\ {ProbeCell(k, n) : n \in 0 .. size_mask} = DOMAIN cells

\* Map::new for every capacity it accepts: the last index of the table and
\* the descriptor of the last slot of the key store are below 65536.
AllCapacitiesFit ==
    \A c \in 1 .. I16Max :
        /\ TableSize(c) - 1 < OffsetModulus
        /\ KeysCapacity(c) - 1 + MIN_KEY < OffsetModulus

\* C25: for the capacities up to i16::MAX the table size minus 1 fits in 16
\* bits (for every one of them, looked at when the map is built, and for
\* the map at hand), and every descriptor insert writes is the slot's offset plus
\* MIN_KEY without wraparound: it is at least MIN_KEY, below 65536, and
\* decodes back to the offset of the slot just pushed.
C25_DescriptorFits ==
    /\ next = 0 => AllCapacitiesFit
    /\ size_mask < OffsetModulus
    /\ \A pos \in DOMAIN cells :
          cells[pos].key_offset # EMPTY_KEY =>
              /\ cells[pos].key_offset >= MIN_KEY
              /\ cells[pos].key_offset < OffsetModulus
              /\ cells[pos].key_offset = (next \div ElemSize - 1) + MIN_KEY
              /\ cells[pos].key_offset - MIN_KEY = next \div ElemSize - 1

\* The map built with i16::MAX is full: the descriptor just written is the
\* largest there can be.
C25_Witness ==
    /\ requested = I16Max
    /\ count = capacity
    /\ next = byte_capacity
    /\ cells[1].key_offset = array_capacity - 1 + MIN_KEY

\* The keys the OCCUPIED cells of m refer to.
LiveKeys(m) == {KeyOf(m, m.cells[pos].key_offset).val : pos \in OccupiedCells(m)}

\* C26: no two OCCUPIED cells refer to equal keys, so there are as many
\* OCCUPIED cells as there are distinct keys in the map.
C26_KeyUniqueness ==
    Running =>
        /\ \A p1 \in OccupiedCells(Cur), p2 \in OccupiedCells(Cur) :
              p1 # p2 => KeyOf(Cur, cells[p1].key_offset).val
                             # KeyOf(Cur, cells[p2].key_offset).val
        /\ Cardinality(OccupiedCells(Cur)) = Cardinality(LiveKeys(Cur))

\* C27: in every state of every interleaving, the states in the middle of
\* a call included, count has not wrapped below zero: remove has not
\* decremented it more often than insert has incremented it.
C27_CountNeverWraps == count >= 0

\* Both threads are in, or have returned from, a remove of the same key,
\* which occupied exactly one cell when the calls started.
BothRemove(key) ==
    /\ \A t \in Threads : threads[t].op = "remove" /\ threads[t].key = key
    /\ Cardinality(CellsOf(start, key)) = 1

\* C28: when the threads remove, in overlapping calls, the same key, which
\* occupies one cell, exactly one of them turns the cell into a tombstone
\* and count goes down exactly once: at every moment the only cell that
\* differs from the start is the key's, at most one thread is about to
\* decrement for it, and once the cell is a tombstone and that thread has
\* decremented, count is one less than at the start and stays so.
C28_RemoveTieBreak ==
    \A key \in KeysConcurrent :
        BothRemove(key) =>
            LET pos == CHOOSE p \in CellsOf(start, key) : TRUE
                uncounting == {t \in Threads : threads[t].pc = "uncount"}
            IN
            /\ \A p \in DOMAIN cells : p # pos => cells[p] = start.cells[p]
            /\ cells[pos] \in {start.cells[pos],
                                [start.cells[pos] EXCEPT !.key_offset = DELETED_KEY]}
            /\ Cardinality(uncounting) <= 1
            /\ cells[pos] = start.cells[pos] =>
                  (uncounting = {} /\ count = start.count)
            /\ cells[pos] # start.cells[pos] =>
                  count = start.count - 1 + Cardinality(uncounting)
            /\ Quiescent =>
                  (cells[pos].key_offset = DELETED_KEY /\ count = start.count - 1)

\* Both removes have returned; the one that lost went on past the tombstone
\* to an EMPTY cell.
C28_Witness ==
    \E key \in KeysConcurrent :
        /\ BothRemove(key)
        /\ Quiescent
        /\ \A t \in Threads : Did(t, "remove")
        /\ count = start.count - 1
        /\ start.count >= 1

\* The slots thread t holds: those its pushes returned, the one of a push
\* still writing its item included, that no pop has taken back since.
Holding(t) ==
    threads[t].held
        \cup (IF threads[t].pc = "write" /\ ~threads[t].popped
              THEN {threads[t].off} ELSE {})

\* C29: whatever the interleaving of pushes and pops, a push that succeeds
\* returns the cursor value it replaced and moves the cursor one slot on,
\* the slot it returns is held by no push that has not been popped, and no
\* slot is held by two such pushes at once.
C29_PushExclusive ==
    /\ \A t \in Threads, u \in Threads :
          t # u => Holding(t) \cap Holding(u) = {}
    /\ \A t \in Threads : \A off \in Holding(t) : off * ElemSize < next
    /\ LET r == ConcurrentArena_push(Cur) IN
       r.ok =>
           /\ r.index = next
           /\ r.m.next = next + ElemSize
           /\ \A t \in Threads : (r.index \div ElemSize) \notin Holding(t)

\* A thread holds slot 0 and its last call popped slot 1; the other thread
\* has pushed since and holds slot 1.
C29_Witness ==
    \E t \in Threads, u \in Threads :
        /\ t # u
        /\ threads[t].held = {0}
        /\ threads[t].ret = RetTrue
        /\ threads[u].held = {1}
        /\ threads[u].ret = RetSome(1)
        /\ slots[1] = u

\* C30: a push returns None only when the cursor has reached the arena's
\* capacity, and then it leaves the cursor where it is; in every state the
\* cursor is between 0 and the capacity and a whole multiple of the element
\* size.
C30_PushFailsAtCapacity ==
    /\ 0 <= next
    /\ next <= byte_capacity
    /\ next % ElemSize = 0
    /\ \A item \in Threads :
          LET r == ConcurrentArray_push(Cur, item) IN
          /\ ~r.ok => (next = byte_capacity /\ r.m = Cur)
          /\ next = byte_capacity => ~r.ok

\* The arena is full and a thread's push has failed; the last call of
\* another thread was a pop that succeeded.
C30_Witness ==
    /\ byte_capacity > ElemSize
    /\ next = byte_capacity
    /\ \E t \in Threads, u \in Threads :
          /\ threads[t].pc = "idle" /\ threads[t].ret = RetNone
          /\ threads[u].ret = RetTrue

\* C31: a pop of `index` succeeds exactly when the cursor is one slot past
\* index (index is the newest slot not yet popped); when it succeeds the
\* cursor becomes index, when it fails nothing changes; a pop of an index
\* at or beyond the capacity fails.
C31_PopNewestOnly ==
    \A index \in 0 .. (array_capacity + 1) :
        LET r == ConcurrentArray_remove(Cur, index) IN
        /\ r.ok <=> next = (index + 1) * ElemSize
        /\ r.ok => r.m = [Cur EXCEPT !.next = index * ElemSize]
        /\ ~r.ok => r.m = Cur
        /\ index >= array_capacity => ~r.ok

\* Two slots are pushed and written; the last call of one thread was a pop
\* that succeeded, the last call of the other a pop that failed.
C31_Witness ==
    /\ next = 2 * ElemSize
    /\ slots[0] # Uninit
    /\ slots[1] # Uninit
    /\ \E t \in Threads, u \in Threads :
          /\ threads[t].pc = "idle" /\ threads[t].ret = RetTrue
          /\ threads[u].pc = "idle" /\ threads[u].ret = RetFalse

\* The slots of the key store under the cursor that no insert in progress
\* may still pop: every slot but those of the inserts between their push
\* and the end of their rollback.
Consumed ==
    {off \in 0 .. (array_capacity - 1) :
        /\ off * ElemSize < next
        /\ \A t \in Threads :
              threads[t].pc \in {"cas", "rollback"} => threads[t].off # off}

\* The slots a failed rollback has leaked: consumed, written, and never
\* referred to by a cell.
Leaked == {off \in Consumed : off \notin published /\ slots[off] # Uninit}

\* C32: in every step the cursor stays, moves up by one slot (the push of an
\* insert succeeded) or moves down by one slot (the rollback of an insert
\* popped the newest slot); a slot that no insert in progress holds, the
\* slot leaked by a failed rollback included, stays under the cursor.
C32_CursorSteps ==
    [][/\ next' \in {next, next + ElemSize, next - ElemSize}
       /\ next' = next + ElemSize =>
             \E t \in Threads : /\ threads[t].pc = "push"
                                /\ threads'[t].pc = "cas"
                                /\ threads'[t].off * ElemSize = next
       /\ next' = next - ElemSize =>
             \E t \in Threads : /\ threads[t].pc = "rollback"
                                /\ threads'[t].pc = "done"
                                /\ threads[t].off * ElemSize = next'
       /\ \A off \in Consumed : off * ElemSize < next']_vars

\* A rollback has failed and its slot is leaked: the insert returned false,
\* no call is in progress, and a written slot under the cursor is referred
\* to by no cell, now or before.
C32_Witness ==
    /\ Quiescent
    /\ \E t \in Threads : threads[t].pc = "done" /\ threads[t].ret = RetFalse
    /\ Leaked # {}

\* The slots of the store that are Occupied and hold `value`.
HoldersOf(m, value) ==
    {index \in 0 .. (effective_capacity - 1) :
        /\ StoreCellAt(m, index).state.tag = "Occupied"
        /\ StoreCellAt(m, index).value = value}

\* C33: with no call in progress, find(value) returns: Some(index) of an
\* Occupied slot that holds the value when there is one, and None when
\* there is none, whatever Deleted slots and Occupied slots of other values
\* lie on its way.
C33_FindReturns ==
    Running =>
        \A value \in StoreValues :
            LET found == HashStore_find(Cur, value) IN
            /\ found # RetHang
            /\ HoldersOf(Cur, value) # {} =>
                  found.tag = "Some" /\ found.val \in HoldersOf(Cur, value)
            /\ HoldersOf(Cur, value) = {} => found = RetNone

\* C34: round trip through the store, calls not overlapping.  An insert
\* that returns Some(o) leaves slot o Occupied and get(o) returns the value
\* inserted; an Occupied slot keeps its state and its payload through every
\* call but remove(o); remove(o) of an Occupied slot returns true and get(o)
\* returns None from then on, as it does for every slot that is not
\* Occupied; remove(o) of an Empty or Deleted slot returns false and changes
\* nothing.
C34_StoreRoundTrip ==
    Running =>
        /\ \A check_unique \in BOOLEAN, value \in StoreValues :
              LET r == HashStore_insert(Cur, check_unique, value) IN
              r.ret.tag = "Some" =>
                  /\ StoreCellAt(r.m, r.ret.val).state.tag = "Occupied"
                  /\ HashStore_get(r.m, r.ret.val) = RetSome(value)
        /\ \A o \in StoreIndices :
              LET cell == StoreCellAt(Cur, o)
                  removed_o == HashStore_remove(Cur, o)
              IN
              /\ cell.state.tag = "Occupied" =>
                    /\ HashStore_get(Cur, o) = RetSome(cell.value)
                    /\ \A check_unique \in BOOLEAN, value \in StoreValues :
                          StoreCellAt(HashStore_insert(Cur, check_unique, value).m, o)
                              = cell
                    /\ \A index \in StoreIndices \ {o} :
                          StoreCellAt(HashStore_remove(Cur, index).m, o) = cell
                    /\ removed_o.ret = RetTrue
                    /\ StoreCellAt(removed_o.m, o).state.tag = "Deleted"
                    /\ HashStore_get(removed_o.m, o) = RetNone
              /\ cell.state.tag \in {"Empty", "Deleted"} =>
                    /\ HashStore_get(Cur, o) = RetNone
                    /\ removed_o.ret = RetFalse
                    /\ removed_o.m = Cur

\* A value was inserted, another one after it, and the first was removed:
\* the last call, remove(o), returned true, slot o is Deleted and still
\* holds its payload, and the other slot is Occupied.
C34_Witness ==
    \E t \in Threads :
        LET o == threads[t].index IN
        /\ threads[t].op = "remove"
        /\ threads[t].ret = RetTrue
        /\ StoreCellAt(Cur, o).state.tag = "Deleted"
        /\ StoreCellAt(Cur, o).value \in StoreValues
        /\ \E index \in StoreIndices \ {o} :
              StoreCellAt(Cur, index).state.tag = "Occupied"
        /\ count = 1

\* The threads between their fetch_update of the slot at `pos` into
\* Inserting and their store of Occupied.
WritersOf(pos) ==
    {t \in Threads : /\ threads[t].pc \in {"ins_write", "ins_store"}
                     /\ get_cell(threads[t].index, size_mask) = pos}

\* C35: in every step of every interleaving a slot whose state changes goes
\* from Empty or Deleted to Inserting(h), from Inserting(h) to Occupied(h)
\* with the same h, stored by the one thread that took the slot into
\* Inserting, or from Occupied to Deleted: never back to Empty, never from
\* Inserting to Deleted or Empty.
C35_SlotTransitions ==
    [][\A pos \in DOMAIN cells :
          LET old == cells[pos].state
              new == cells'[pos].state
          IN
          /\ old.tag = "Inserting" <=> WritersOf(pos) # {}
          /\ \A t \in WritersOf(pos), u \in WritersOf(pos) : t = u
          /\ old # new =>
                \/ /\ old.tag \in {"Empty", "Deleted"}
                   /\ new.tag = "Inserting"
                   /\ \E t \in Threads : /\ threads[t].pc = "ins_cas"
                                          /\ threads'[t].pc = "ins_write"
                                          /\ new.hash = hash(threads[t].value)
                \/ /\ old.tag = "Inserting"
                   /\ new = HashState_Occupied(old.hash)
                   /\ \E t \in WritersOf(pos) : /\ threads[t].pc = "ins_store"
                                                 /\ threads'[t].pc = "ins_count"
                \/ /\ old.tag = "Occupied"
                   /\ new = HashState_Deleted]_vars

\* A slot has been through Inserting, Occupied and Deleted and is in the
\* Inserting state again: its new writer has not written yet and the
\* payload is the removed one; the remove of the other thread has returned
\* true and the other slot is Occupied.
C35_Witness ==
    \E t \in Threads, u \in Threads :
        LET o == threads[t].index IN
        /\ t # u
        /\ threads[t].pc = "ins_write"
        /\ StoreCellAt(Cur, o).state = HashState_Inserting(hash(threads[t].value))
        /\ StoreCellAt(Cur, o).value \in StoreValuesConcurrent
        /\ threads[u].pc = "idle"
        /\ threads[u].ret = RetTrue
        /\ \E index \in StoreIndicesConcurrent \ {o} :
              StoreCellAt(Cur, index).state.tag = "Occupied"

\* C36: under every interleaving of insert, find, get, values_eq and remove
\* no thread reads the payload of a slot that is in the Inserting state.
C36_NoReadWhileInserting == \A t \in Threads : ~threads[t].raced

====
